---- MODULE Spec2Model ----
(***************************************************************************)
(* PaperLens: the generation-and-cache orchestration layer.                *)
(*                                                                         *)
(*   - MindMapCache (services/visualization/mindmaps/cache.py): a Redis    *)
(*     backed, versioned, TTL-bounded cache of one MindMap per paper.      *)
(*   - MindMapService / MindMapGenerator (client.py, generator.py): the    *)
(*     get-or-generate flow on top of it.                                  *)
(*   - ResponseParser (services/nvidia/prompts.py): the staged parser of   *)
(*     raw LLM text into a RAGResponse.                                    *)
(*                                                                         *)
(* Time is counted in ticks, TicksPerSec ticks to the second.  Every       *)
(* `await` on Redis is one atomic step of the store; the steps of          *)
(* different coroutines interleave.                                        *)
(***************************************************************************)
EXTENDS Integers, Sequences, FiniteSets, TLC

\* ------------------------------------------------------------------ bounds
TicksPerSec == 3
TtlSeconds  == 1
MaxTime     == 4
MaxHits     == 2
MaxLimit    == 2
CardTtl     == 2
MaxCardTime == 3
MaxRequests == 3

Procs  == {"a", "b"}
Papers == {"p1"}

None == <<>>
Some(x) == <<x>>

VARIABLES
    now,        \* the clock, in ticks
    version,    \* settings.redis_mindmap_cache_version
    redis,      \* the store: key -> [val: JSON text of a MindMapCacheEntry, exp: expiry tick]
    pc,         \* per coroutine: where it stands
    call,       \* per coroutine: the operation it runs and its arguments
    loc,        \* per coroutine: the locals of the running method
    ret,        \* per coroutine: what the operation returned or raised
    obs,        \* per coroutine: what this invocation did (history, not program state)
    hist,       \* per key: what last happened to it (history, not program state)
    resp,       \* ResponseParser: the raw response under parse
    out,        \* ResponseParser: the result of the parse
    table,      \* the flashcards table: a set of rows
    persisted,  \* per (category, arxiv_id): the record last upserted (history)
    batch,      \* FlashcardService: the get_cards call in progress
    seen,       \* what the get_cards call in progress did (history)
    served,     \* the number of get_cards calls so far (history)
    rpm,        \* FlashcardService.rpm_budget
    nim,        \* the inference service: what its calls may do in this run
    lastRegen,  \* the last get_cards call that regenerated (history)
    sweep,      \* cleanup_expired: the call in progress and how it ended
    http,       \* per coroutine: the request of the mind map endpoint it serves
    gen,        \* the inference service: what generate_mindmap may do in this run
    remote,     \* NvidiaClient.generate: the arguments and what the remote call does
    reply,      \* NvidiaClient.generate: what it returned or raised
    requests,   \* NvidiaClient.generate: the requests sent to the endpoint (history)
    prompt      \* the concept graph prompt: the passages given and the text built

cacheVars == <<now, version, redis, pc, call, loc, ret, obs, hist>>
cacheRest == <<version, redis, pc, call, loc, ret, obs, hist>>
parseVars == <<resp, out>>
cardVars == <<table, persisted, batch, seen, served, rpm, nim, lastRegen, sweep>>
routerVars == <<http, gen>>
clientVars == <<remote, reply, requests, prompt>>
vars == <<now, version, redis, pc, call, loc, ret, obs, hist, resp, out,
          table, persisted, batch, seen, served, rpm, nim, lastRegen, sweep,
          http, gen,
          remote, reply, requests, prompt>>

\* ------------------------------------------------------------ JSON values
\* A JSON document as pydantic's model_dump_json writes it and json.loads /
\* model_validate_json read it: a tree of tagged values.
JNull     == [t |-> "null"]
JStr(s)   == [t |-> "str", s |-> s]
JNum(n)   == [t |-> "num", n |-> n]
JArr(a)   == [t |-> "arr", a |-> a]
JObj(o)   == [t |-> "obj", o |-> o]
\* Mutant of JTime: the fraction of the second is lost.
JTimeWholeSeconds(t) == [t |-> "str", iso |-> <<t \div TicksPerSec, 0>>]

\* A datetime is written as an ISO-8601 string: whole seconds and the fraction.
JTime(t)  == [t |-> "str", iso |-> <<t \div TicksPerSec, t % TicksPerSec>>]

IsJStr(j)  == j.t = "str" /\ "s" \in DOMAIN j
IsJTime(j) == j.t = "str" /\ "iso" \in DOMAIN j
HasKey(j, k) == j.t = "obj" /\ k \in DOMAIN j.o

JOpt(x)   == IF x = None THEN JNull ELSE JStr(x[1])
UnJOpt(j) == IF j.t = "null" THEN None ELSE Some(j.s)
UnJTime(j) == j.iso[1] * TicksPerSec + j.iso[2]
JStrs(a)   == JArr([i \in 1..Len(a) |-> JStr(a[i])])
UnJStrs(j) == [i \in 1..Len(j.a) |-> j.a[i].s]

\* ------------------------------------------------- schemas: MindMapNode
NodeTypes   == {"root", "problem", "approach", "concept", "finding", "limitation", "contribution"}
Importances == {"primary", "secondary", "tertiary"}

Node(id, kind, imp, desc, kids) ==
    [id |-> id, label |-> id, description |-> desc, node_type |-> kind,
     importance |-> imp, source_section |-> None, children |-> kids]

RECURSIVE DumpNode(_)
DumpNode(n) ==
    JObj([id |-> JStr(n.id), label |-> JStr(n.label),
          description |-> JOpt(n.description),
          node_type |-> JStr(n.node_type), importance |-> JStr(n.importance),
          source_section |-> JOpt(n.source_section),
          children |-> JArr([i \in 1..Len(n.children) |-> DumpNode(n.children[i])])])

OptStrOk(j, k) == ~HasKey(j, k) \/ j.o[k].t = "null" \/ IsJStr(j.o[k])
OptStrOf(j, k) == IF HasKey(j, k) THEN UnJOpt(j.o[k]) ELSE None

\* MindMapNode.model_validate: whether the value is accepted.
RECURSIVE NodeValid(_)
NodeValid(j) ==
    /\ j.t = "obj"
    /\ HasKey(j, "id") /\ IsJStr(j.o.id)
    /\ HasKey(j, "label") /\ IsJStr(j.o.label)
    /\ OptStrOk(j, "description")
    /\ HasKey(j, "node_type") /\ IsJStr(j.o.node_type) /\ j.o.node_type.s \in NodeTypes
    /\ HasKey(j, "importance") /\ IsJStr(j.o.importance) /\ j.o.importance.s \in Importances
    /\ OptStrOk(j, "source_section")
    /\ \/ ~HasKey(j, "children")
       \/ /\ j.o.children.t = "arr"
          /\ \A i \in 1..Len(j.o.children.a) : NodeValid(j.o.children.a[i])

\* MindMapNode.model_validate: the node built from an accepted value.
RECURSIVE ParseNode(_)
ParseNode(j) ==
    [id |-> j.o.id.s, label |-> j.o.label.s,
     description |-> OptStrOf(j, "description"),
     node_type |-> j.o.node_type.s, importance |-> j.o.importance.s,
     source_section |-> OptStrOf(j, "source_section"),
     children |-> IF HasKey(j, "children")
                  THEN [i \in 1..Len(j.o.children.a) |-> ParseNode(j.o.children.a[i])]
                  ELSE <<>>]

\* ------------------------------------- schemas: MindMap, MindMapCacheEntry
DumpMindMap(m) ==
    JObj([paper_id |-> JStr(m.paper_id), arxiv_id |-> JStr(m.arxiv_id),
          paper_title |-> JStr(m.paper_title), root |-> DumpNode(m.root),
          sections_covered |-> JStrs(m.sections_covered),
          generated_at |-> JTime(m.generated_at), model_used |-> JStr(m.model_used)])

ParseMindMap(j) ==
    [paper_id |-> j.o.paper_id.s, arxiv_id |-> j.o.arxiv_id.s,
     paper_title |-> j.o.paper_title.s, root |-> ParseNode(j.o.root),
     sections_covered |-> UnJStrs(j.o.sections_covered),
     generated_at |-> UnJTime(j.o.generated_at), model_used |-> j.o.model_used.s]

\* MindMapCacheEntry.model_dump_json
DumpEntry(e) ==
    JObj([mindmap |-> DumpMindMap(e.mindmap), cache_version |-> JNum(e.cache_version),
          hit_count |-> JNum(e.hit_count), cached_at |-> JTime(e.cached_at),
          expires_at |-> JTime(e.expires_at)])

\* MindMapCacheEntry.model_validate_json
ParseEntry(j) ==
    [mindmap |-> ParseMindMap(j.o.mindmap), cache_version |-> j.o.cache_version.n,
     hit_count |-> j.o.hit_count.n, cached_at |-> UnJTime(j.o.cached_at),
     expires_at |-> UnJTime(j.o.expires_at)]

\* ------------------------------------------------------ the Redis store
\* The values redis_mindmap_cache_version takes: as deployed, and after one bump.
Versions == {1, 2}
TtlTicks == TtlSeconds * TicksPerSec

\* _cache_key: f"mindmap:v{version}:{paper_id}"
KeyOf(v, paper_id) == <<"mindmap", v, paper_id>>
\* Mutant of CacheKey: the key does not carry the version.
CacheKeyUnversioned(paper_id) == KeyOf(1, paper_id)
CacheKey(paper_id) == KeyOf(version, paper_id)
AllKeys == {KeyOf(v, p) : v \in Versions, p \in Papers}

\* GET key
RedisGet(key) == IF key \in DOMAIN redis THEN Some(redis[key].val) ELSE None

\* TTL key: -2 for a missing key, -1 for a key with no expiry, else the remaining
\* time in seconds, rounded to the nearest second as the server does.
RedisTtl(key) ==
    IF key \notin DOMAIN redis THEN -2
    ELSE IF redis[key].exp < 0 THEN -1
    ELSE (2 * (redis[key].exp - now) + TicksPerSec) \div (2 * TicksPerSec)

\* SET key val EX ex
RedisSet(key, val, ex) ==
    [k \in DOMAIN redis \cup {key} |->
        IF k = key THEN [val |-> val, exp |-> now + ex * TicksPerSec] ELSE redis[k]]

\* Mutant of RedisDel: nothing is deleted.
RedisDelNothing(key) == redis

\* DEL key
RedisDel(key) == [k \in DOMAIN redis \ {key} |-> redis[k]]

\* The store drops a key once its expiry is reached.
RedisExpire(store, t) == [k \in {x \in DOMAIN store : store[x].exp > t} |-> store[k]]

\* --------------------------------------------------- MindMapCache methods
\* Mutant of GetBump: the hit count is not incremented.
GetNoBump(raw) == ParseEntry(raw)

\* MindMapCache.get, after the read: the entry with its hit count incremented.
GetBump(raw) ==
    LET entry == ParseEntry(raw)
    IN  [entry EXCEPT !.hit_count = entry.hit_count + 1]

\* MindMapCache.get, the write-back: ex = ttl if ttl > 0 else the configured TTL.
GetEx(ttl) == IF ttl > 0 THEN ttl ELSE TtlSeconds

\* Mutant of SetEntry: the hit count of the entry being replaced is kept.
SetEntryKeepingHits(mindmap) ==
    LET key == CacheKey(mindmap.paper_id)
    IN  [mindmap |-> mindmap, cache_version |-> version,
         hit_count |-> IF key \in DOMAIN redis THEN ParseEntry(redis[key].val).hit_count ELSE 0,
         cached_at |-> now, expires_at |-> now + TtlTicks]

\* MindMapCache.set: the entry it builds.
SetEntry(mindmap) ==
    [mindmap |-> mindmap, cache_version |-> version, hit_count |-> 0,
     cached_at |-> now, expires_at |-> now + TtlTicks]

\* MindMapCache.status: the status record after the read and the TTL query.
StatusOf(paper_id, raw, ttl) ==
    IF raw = None
    THEN [paper_id |-> paper_id, is_cached |-> FALSE, hit_count |-> None,
          cached_at |-> None, expires_at |-> None, ttl_seconds |-> None]
    ELSE LET entry == ParseEntry(raw[1])
         IN  [paper_id |-> paper_id, is_cached |-> TRUE,
              hit_count |-> Some(entry.hit_count),
              cached_at |-> Some(entry.cached_at),
              expires_at |-> Some(entry.expires_at),
              ttl_seconds |-> IF ttl > 0 THEN Some(ttl) ELSE None]

\* ------------------------------------------------------ MindMapGenerator
ModelUsed == "meta/llama-3.3-70b-instruct"

RootA == Node("root", "root", "primary", Some("the paper"),
              <<Node("n1", "problem", "secondary", None, <<>>)>>)
\* A node written with its required fields only.
BareRootJson == JObj([id |-> JStr("root"), label |-> JStr("root"),
                      node_type |-> JStr("root"), importance |-> JStr("primary")])
BadKindJson  == JObj([id |-> JStr("root"), label |-> JStr("root"),
                      node_type |-> JStr("bogus"), importance |-> JStr("primary")])

\* Raw LLM texts: whether the text is wrapped in a ``` fence, whether what is
\* inside is JSON, and the JSON value.
RawText(fenced, json, data) == [fenced |-> fenced, json |-> json, data |-> data]
RawPayloads ==
    { RawText(FALSE, TRUE, JObj([root |-> DumpNode(RootA),
                                 paper_title |-> JStr("title by the LLM"),
                                 sections_covered |-> JStrs(<<"Introduction">>)])),
      RawText(TRUE, TRUE, JObj([root |-> BareRootJson])),
      RawText(FALSE, FALSE, JNull),
      RawText(FALSE, TRUE, JArr(<<>>)),
      RawText(FALSE, TRUE, JObj([paper_title |-> JStr("title by the LLM")])),
      RawText(FALSE, TRUE, JObj([root |-> BadKindJson])),
      RawText(FALSE, TRUE, JObj([root |-> BareRootJson,
                                 sections_covered |-> JStr("Introduction")])) }

\* NvidiaClient.generate_mindmap: it raises one of the client's errors or
\* returns {"raw": text}.
LlmErrors == {"OllamaConnectionError", "OllamaTimeoutError", "OllamaException"}
LlmOutcomes ==
    {[exc |-> e, raw |-> RawText(FALSE, FALSE, JNull)] : e \in LlmErrors}
    \cup {[exc |-> "", raw |-> r] : r \in RawPayloads}

\* Trees that MindMapNode accepts field by field: a root of another kind, a
\* node under a node of the same id, and a second node of kind root.
RootOfOtherKind == Node("root", "problem", "primary", None, <<>>)
NodeUnderItself == Node("root", "root", "primary", None,
                        <<Node("n1", "concept", "secondary", None,
                               <<Node("root", "finding", "tertiary", None, <<>>)>>)>>)
SecondRoot      == Node("root", "root", "primary", None,
                        <<Node("n1", "root", "secondary", None, <<>>)>>)
OddPayloads ==
    {RawText(FALSE, TRUE, JObj([root |-> DumpNode(n)])) :
        n \in {RootOfOtherKind, NodeUnderItself, SecondRoot}}
OddOutcomes == {[exc |-> "", raw |-> r] : r \in OddPayloads}

Raise(e)  == [ok |-> FALSE, exc |-> e, mindmap |-> None]
Return(m) == [ok |-> TRUE, exc |-> "", mindmap |-> Some(m)]

StrListOk(j) == j.t = "arr" /\ \A i \in 1..Len(j.a) : IsJStr(j.a[i])

\* MindMapGenerator._parse.  A fenced text has its first and last lines
\* dropped; json.loads fails on text that is not JSON; data["root"] is
\* validated inside the try; MindMap(...) is built outside of it.
GeneratorParse(raw, paper_id, arxiv_id, paper_title, t) ==
    IF ~raw.json THEN Raise("MindMapGenerationError")
    ELSE LET data == raw.data IN
         IF ~(HasKey(data, "root") /\ NodeValid(data.o.root))
         THEN Raise("MindMapGenerationError")
         ELSE IF \/ HasKey(data, "paper_title") /\ ~IsJStr(data.o.paper_title)
                 \/ HasKey(data, "sections_covered")
                    /\ ~StrListOk(data.o.sections_covered)
         THEN Raise("ValidationError")
         ELSE Return([paper_id |-> paper_id, arxiv_id |-> arxiv_id,
                      paper_title |-> IF HasKey(data, "paper_title")
                                      THEN data.o.paper_title.s ELSE paper_title,
                      root |-> ParseNode(data.o.root),
                      sections_covered |-> IF HasKey(data, "sections_covered")
                                           THEN UnJStrs(data.o.sections_covered)
                                           ELSE <<>>,
                      generated_at |-> t, model_used |-> ModelUsed])

\* MindMapGenerator.generate
GeneratorGenerate(hasChunks, llm, paper_id, arxiv_id, paper_title, t) ==
    IF ~hasChunks THEN Raise("MindMapGenerationError")
    ELSE IF llm.exc # "" THEN Raise("MindMapGenerationError")
    ELSE GeneratorParse(llm.raw, paper_id, arxiv_id, paper_title, t)

\* What the caller passes for a paper: paper.arxiv_id and paper.title.
ArxivIdOf(paper) == paper
TitleOf(paper) == "title of the paper record"

\* ------------------------------------------------------------ coroutines
NoCall == [op |-> "none", paper |-> "", known |-> TRUE, hasChunks |-> FALSE, mindmap |-> None]
NoLoc  == [key |-> None, entry |-> None, ttl |-> 0, mindmap |-> None]
NoRet  == [kind |-> "none", mindmap |-> None, status |-> None, exc |-> ""]
NoObs  == [hit |-> "", gen |-> 0, llm |-> 0, sets |-> 0, writes |-> 0,
           prevOp |-> "", fresh |-> FALSE, over |-> None, h |-> None]
NoHist == [lastOp |-> "none", setAt |-> 0, setMM |-> None, gets |-> 0]
NoHttp == [st |-> "none", code |-> 0]

\* History of a key once it has left the store: only the last operation stays,
\* and the time of a set that nothing followed.
Gone(h) == [NoHist EXCEPT !.lastOp = h.lastOp,
                          !.setAt = IF h.lastOp = "set" THEN h.setAt ELSE 0]

\* Coroutines are interchangeable: a new call takes the first free one.
MayStart(p) == pc[p] = "idle" /\ (p = "a" \/ pc["a"] # "idle")

RetMindMap(m) == [NoRet EXCEPT !.kind = "mindmap", !.mindmap = Some(m)]
RetAbsent     == [NoRet EXCEPT !.kind = "absent"]
RetOk         == [NoRet EXCEPT !.kind = "ok"]
RetStatus(st) == [NoRet EXCEPT !.kind = "status", !.status = Some(st)]
RetRaise(e)   == [NoRet EXCEPT !.kind = "raise", !.exc = e]

\* The mind maps a caller hands to MindMapCache.set: what the generator builds.
MindMapsFor(paper) ==
    {[r.mindmap[1] EXCEPT !.paper_title = TitleOf(paper)] : r \in {x \in {GeneratorParse(raw, paper, ArxivIdOf(paper), TitleOf(paper), now)
                                    : raw \in RawPayloads} : x.ok}}

\* Mutant of AfterHit: get_or_generate goes on to the generator after a hit.
AfterHitRegenerates(op) == IF op = "get_or_generate" THEN "generate" ELSE "done"

\* MindMapService.get_or_generate after the cache check: `if cached: return
\* cached`, else on to the generator.  MindMapCache.get called on its own
\* returns either way.
AfterHit(op)  == "done"
AfterMiss(op) == IF op = "get_or_generate" THEN "generate" ELSE "done"

HitsBelowBound(key) ==
    key \in DOMAIN redis => ParseEntry(redis[key].val).hit_count < MaxHits

\* MindMapCache.get up to its first await, `raw = await self._redis.get(key)`,
\* called directly or as step 1 of MindMapService.get_or_generate.
GetRead(p, op, paper, hasChunks) ==
    LET key == CacheKey(paper)
        raw == RedisGet(key)
    IN  /\ HitsBelowBound(key)
        /\ call' = [call EXCEPT ![p] = [NoCall EXCEPT !.op = op, !.paper = paper,
                                                      !.hasChunks = hasChunks]]
        /\ obs' = [obs EXCEPT ![p] = [NoObs EXCEPT
                       !.hit = IF raw = None THEN "miss" ELSE "hit",
                       !.prevOp = hist[key].lastOp,
                       !.fresh = (hist[key].lastOp = "set"
                                  /\ now < hist[key].setAt + TtlTicks),
                       !.h = Some(hist[key])]]
        /\ IF raw = None
           THEN /\ loc' = [loc EXCEPT ![p] = [NoLoc EXCEPT !.key = Some(key)]]
                /\ pc' = [pc EXCEPT ![p] = AfterMiss(op)]
                /\ IF AfterMiss(op) = "done"
                   THEN ret' = [ret EXCEPT ![p] = RetAbsent]
                   ELSE UNCHANGED ret
           ELSE /\ loc' = [loc EXCEPT ![p] = [NoLoc EXCEPT !.key = Some(key),
                                              !.entry = Some(GetBump(raw[1]))]]
                /\ pc' = [pc EXCEPT ![p] = "get_ttl"]
                /\ UNCHANGED ret

\* A call of MindMapCache.get or of MindMapService.get_or_generate begins.
CacheGetRead(p) ==
    /\ MayStart(p)
    /\ \E op \in {"get", "get_or_generate"}, paper \in Papers, hasChunks \in BOOLEAN :
         /\ op = "get" => ~hasChunks
         /\ GetRead(p, op, paper, hasChunks)
    /\ UNCHANGED <<now, version, redis, hist, parseVars, cardVars, routerVars, clientVars>>

\* MindMapCache.get: `ttl = await self._redis.ttl(key)`.
CacheGetTtl(p) ==
    /\ pc[p] = "get_ttl"
    /\ loc' = [loc EXCEPT ![p].ttl = RedisTtl(loc[p].key[1])]
    /\ pc' = [pc EXCEPT ![p] = "get_write"]
    /\ UNCHANGED <<now, version, redis, call, ret, obs, hist, parseVars, cardVars, routerVars, clientVars>>

\* MindMapCache.get: `await self._redis.set(key, entry.model_dump_json(), ex=...)`
\* and `return entry.mindmap`; get_or_generate returns it (`if cached`).
CacheGetWrite(p) ==
    /\ pc[p] = "get_write"
    /\ LET key == loc[p].key[1]
           entry == loc[p].entry[1]
       IN  /\ redis' = RedisSet(key, DumpEntry(entry), GetEx(loc[p].ttl))
           /\ hist' = [hist EXCEPT ![key] =
                         LET h == IF key \in DOMAIN redis THEN hist[key] ELSE obs[p].h[1]
                         IN  [h EXCEPT !.lastOp = "get", !.gets = h.gets + 1]]
           /\ ret' = [ret EXCEPT ![p] = RetMindMap(entry.mindmap)]
    /\ obs' = [obs EXCEPT ![p].writes = @ + 1]
    /\ pc' = [pc EXCEPT ![p] = AfterHit(call[p].op)]
    /\ UNCHANGED <<now, version, call, loc, parseVars, cardVars, routerVars, clientVars>>

\* Mutant of GenerateRaised: a placeholder is cached before the exception
\* leaves the coroutine.
GenerateRaisedCachingPlaceholder(p, exc) ==
    LET key == loc[p].key[1]
        placeholder == [paper_id |-> call[p].paper, arxiv_id |-> ArxivIdOf(call[p].paper),
                        paper_title |-> TitleOf(call[p].paper),
                        root |-> Node("root", "root", "primary", Some(exc), <<>>),
                        sections_covered |-> <<>>, generated_at |-> now,
                        model_used |-> ModelUsed]
    IN  /\ redis' = RedisSet(key, DumpEntry(SetEntry(placeholder)), TtlSeconds)
        /\ hist' = [hist EXCEPT ![key] = [lastOp |-> "set", setAt |-> now,
                                          setMM |-> Some(placeholder), gets |-> 0]]
        /\ ret' = [ret EXCEPT ![p] = RetRaise(exc)]
        /\ pc' = [pc EXCEPT ![p] = "done"]
        /\ UNCHANGED loc

\* MindMapService.get_or_generate when generator.generate raised: the
\* exception leaves the coroutine; nothing else is done.
GenerateRaised(p, exc) ==
    /\ ret' = [ret EXCEPT ![p] = RetRaise(exc)]
    /\ pc' = [pc EXCEPT ![p] = "done"]
    /\ UNCHANGED <<loc, redis, hist>>

\* Mutant of TitleOverridden: the mind map keeps the title the generator gave it.
TitleAsGenerated(mindmap, paper_title) == mindmap

\* MindMapService.get_or_generate: `mindmap.paper_title = paper_title`.
TitleOverridden(mindmap, paper_title) == [mindmap EXCEPT !.paper_title = paper_title]

\* MindMapService.get_or_generate, step 2 after a miss: generator.generate and
\* the title override.  The generator makes no await: it is one step.
ServiceGenerate(p) ==
    /\ pc[p] = "generate"
    /\ \E llm \in gen :
         LET paper == call[p].paper
             res == GeneratorGenerate(call[p].hasChunks, llm, paper, ArxivIdOf(paper),
                                      TitleOf(paper), now)
         IN  /\ obs' = [obs EXCEPT ![p].gen = @ + 1,
                                   ![p].llm = @ + (IF call[p].hasChunks THEN 1 ELSE 0)]
             /\ IF res.ok
                THEN /\ loc' = [loc EXCEPT ![p].mindmap =
                                  Some(TitleOverridden(res.mindmap[1], TitleOf(paper)))]
                     /\ pc' = [pc EXCEPT ![p] = "set_write"]
                     /\ UNCHANGED ret
                     /\ UNCHANGED <<redis, hist>>
                ELSE GenerateRaised(p, res.exc)
    /\ UNCHANGED <<now, version, call, parseVars, cardVars, routerVars, clientVars>>

\* Mutant of SetWrites: SET ... NX, the first write stays.
SetWritesIfAbsent(mindmap) ==
    LET key == CacheKey(mindmap.paper_id)
    IN  /\ redis' = IF key \in DOMAIN redis THEN redis
                    ELSE RedisSet(key, DumpEntry(SetEntry(mindmap)), TtlSeconds)
        /\ hist' = [hist EXCEPT ![key] =
                      [lastOp |-> "set", setAt |-> now, setMM |-> Some(mindmap), gets |-> 0]]

\* MindMapCache.set(mindmap): the store and the history after the write.
SetWrites(mindmap) ==
    LET key == CacheKey(mindmap.paper_id)
    IN  /\ redis' = RedisSet(key, DumpEntry(SetEntry(mindmap)), TtlSeconds)
        /\ hist' = [hist EXCEPT ![key] =
                      [lastOp |-> "set", setAt |-> now, setMM |-> Some(mindmap), gets |-> 0]]

\* The hit count of the entry a set is about to overwrite, if there is one.
Overwritten(paper_id) ==
    LET key == CacheKey(paper_id)
    IN  IF key \in DOMAIN redis THEN Some(ParseEntry(redis[key].val).hit_count) ELSE None

\* MindMapService.get_or_generate, step 3: `await self._cache.set(mindmap)` and
\* `return mindmap`.
ServiceSet(p) ==
    /\ pc[p] = "set_write"
    /\ SetWrites(loc[p].mindmap[1])
    /\ obs' = [obs EXCEPT ![p].sets = @ + 1, ![p].writes = @ + 1,
                           ![p].over = Overwritten(call[p].paper)]
    /\ ret' = [ret EXCEPT ![p] = RetMindMap(loc[p].mindmap[1])]
    /\ pc' = [pc EXCEPT ![p] = "done"]
    /\ UNCHANGED <<now, version, call, loc, parseVars, cardVars, routerVars, clientVars>>

\* MindMapCache.set called on its own.
CacheSet(p) ==
    /\ MayStart(p)
    /\ \E paper \in Papers : \E mindmap \in MindMapsFor(paper) :
         /\ SetWrites(mindmap)
         /\ call' = [call EXCEPT ![p] = [NoCall EXCEPT !.op = "set", !.paper = paper,
                                                       !.mindmap = Some(mindmap)]]
         /\ loc' = [loc EXCEPT ![p] = [NoLoc EXCEPT !.key = Some(CacheKey(paper))]]
         /\ obs' = [obs EXCEPT ![p] = [NoObs EXCEPT !.sets = 1, !.writes = 1,
                                                    !.over = Overwritten(paper)]]
    /\ ret' = [ret EXCEPT ![p] = RetOk]
    /\ pc' = [pc EXCEPT ![p] = "done"]
    /\ UNCHANGED <<now, version, parseVars, cardVars, routerVars, clientVars>>

\* MindMapCache.invalidate / MindMapService.invalidate: `await redis.delete(key)`.
CacheInvalidate(p) ==
    /\ MayStart(p)
    /\ \E paper \in Papers :
         LET key == CacheKey(paper)
         IN  /\ redis' = RedisDel(key)
             /\ hist' = [hist EXCEPT ![key] = [NoHist EXCEPT !.lastOp = "invalidate"]]
             /\ call' = [call EXCEPT ![p] = [NoCall EXCEPT !.op = "invalidate", !.paper = paper]]
             /\ loc' = [loc EXCEPT ![p] = [NoLoc EXCEPT !.key = Some(key)]]
             /\ obs' = [obs EXCEPT ![p] = [NoObs EXCEPT
                            !.writes = IF key \in DOMAIN redis THEN 1 ELSE 0,
                            !.prevOp = hist[key].lastOp]]
    /\ ret' = [ret EXCEPT ![p] = RetOk]
    /\ pc' = [pc EXCEPT ![p] = "done"]
    /\ UNCHANGED <<now, version, parseVars, cardVars, routerVars, clientVars>>

\* MindMapCache.status / MindMapService.get_cache_status up to the first await.
CacheStatusRead(p) ==
    /\ MayStart(p)
    /\ \E paper \in Papers :
         LET key == CacheKey(paper)
             raw == RedisGet(key)
         IN  /\ call' = [call EXCEPT ![p] = [NoCall EXCEPT !.op = "status", !.paper = paper]]
             /\ obs' = [obs EXCEPT ![p] = [NoObs EXCEPT
                            !.hit = IF raw = None THEN "miss" ELSE "hit",
                            !.prevOp = hist[key].lastOp]]
             /\ IF raw = None
                THEN /\ loc' = [loc EXCEPT ![p] = [NoLoc EXCEPT !.key = Some(key)]]
                     /\ ret' = [ret EXCEPT ![p] = RetStatus(StatusOf(paper, None, 0))]
                     /\ pc' = [pc EXCEPT ![p] = "done"]
                ELSE /\ loc' = [loc EXCEPT ![p] = [NoLoc EXCEPT !.key = Some(key),
                                                   !.entry = Some(ParseEntry(raw[1]))]]
                     /\ pc' = [pc EXCEPT ![p] = "status_ttl"]
                     /\ UNCHANGED ret
    /\ UNCHANGED <<now, version, redis, hist, parseVars, cardVars, routerVars, clientVars>>

\* Mutant of CacheStatusTtl: status writes the entry back, as get does.
CacheStatusTtlWritingBack(p) ==
    /\ pc[p] = "status_ttl"
    /\ LET ttl == RedisTtl(loc[p].key[1])
       IN  /\ loc' = [loc EXCEPT ![p].ttl = ttl]
           /\ redis' = RedisSet(loc[p].key[1], DumpEntry(GetBump(DumpEntry(loc[p].entry[1]))),
                                GetEx(ttl))
           /\ ret' = [ret EXCEPT ![p] =
                        RetStatus(StatusOf(call[p].paper, Some(DumpEntry(loc[p].entry[1])), ttl))]
    /\ pc' = [pc EXCEPT ![p] = "done"]
    /\ UNCHANGED <<now, version, call, obs, hist, parseVars, cardVars, routerVars, clientVars>>

\* MindMapCache.status: `ttl = await self._redis.ttl(key)` and the return.
CacheStatusTtl(p) ==
    /\ pc[p] = "status_ttl"
    /\ LET ttl == RedisTtl(loc[p].key[1])
       IN  /\ loc' = [loc EXCEPT ![p].ttl = ttl]
           /\ ret' = [ret EXCEPT ![p] =
                        RetStatus(StatusOf(call[p].paper, Some(DumpEntry(loc[p].entry[1])), ttl))]
    /\ pc' = [pc EXCEPT ![p] = "done"]
    /\ UNCHANGED <<now, version, redis, call, obs, hist, parseVars, cardVars, routerVars, clientVars>>

\* ------------------------------------------ routers/visualization.py
Pending    == [st |-> "pending", code |-> 0]
Sent(code) == [st |-> "sent", code |-> code]

\* get_mindmap before the service is called: `if not paper` raises 404, then
\* `if not chunks` raises 422.
StatusBeforeService(known, hasChunks) == IF ~known THEN 404 ELSE 422

\* get_mindmap when get_or_generate has ended: the mind map is the response;
\* MindMapGenerationError is turned into 502; any other exception is not
\* caught and the framework answers 500.
StatusAfterService(r) ==
    IF r.kind = "mindmap" THEN 200
    ELSE IF r.exc = "MindMapGenerationError" THEN 502
    ELSE 500

\* get_mindmap up to its first await: the paper record, the chunks, and step
\* 1 of get_or_generate.
RouterGetMindmap(p) ==
    /\ MayStart(p)
    /\ \E paper \in Papers, known \in BOOLEAN, hasChunks \in BOOLEAN :
         IF ~known \/ ~hasChunks
         THEN /\ call' = [call EXCEPT ![p] = [NoCall EXCEPT !.op = "get_mindmap",
                                                            !.paper = paper,
                                                            !.known = known,
                                                            !.hasChunks = hasChunks]]
              /\ http' = [http EXCEPT ![p] = Sent(StatusBeforeService(known, hasChunks))]
              /\ ret' = [ret EXCEPT ![p] = RetRaise("HTTPException")]
              /\ obs' = [obs EXCEPT ![p] = NoObs]
              /\ loc' = [loc EXCEPT ![p] = NoLoc]
              /\ pc' = [pc EXCEPT ![p] = "done"]
         ELSE /\ GetRead(p, "get_or_generate", paper, TRUE)
              /\ http' = [http EXCEPT ![p] = Pending]
    /\ UNCHANGED <<now, version, redis, hist, parseVars, cardVars, gen, clientVars>>

\* get_mindmap after `await mindmap_service.get_or_generate(...)`.
RouterRespond(p) ==
    /\ pc[p] = "done"
    /\ http[p].st = "pending"
    /\ http' = [http EXCEPT ![p] = Sent(StatusAfterService(ret[p]))]
    /\ UNCHANGED <<cacheVars, parseVars, cardVars, gen, clientVars>>

\* The caller takes the result; the coroutine is gone.
Finish(p) ==
    /\ pc[p] = "done"
    /\ pc' = [pc EXCEPT ![p] = "idle"]
    /\ call' = [call EXCEPT ![p] = NoCall]
    /\ loc' = [loc EXCEPT ![p] = NoLoc]
    /\ ret' = [ret EXCEPT ![p] = NoRet]
    /\ obs' = [obs EXCEPT ![p] = NoObs]
    /\ http[p].st # "pending"
    /\ http' = [http EXCEPT ![p] = NoHttp]
    /\ UNCHANGED <<now, version, redis, hist, parseVars, cardVars, gen, clientVars>>

\* Time passes; the store drops what has expired.
Tick ==
    /\ now < MaxTime
    /\ now' = now + 1
    /\ redis' = RedisExpire(redis, now + 1)
    /\ hist' = [k \in AllKeys |->
                 IF k \in DOMAIN redis /\ k \notin DOMAIN redis' THEN Gone(hist[k]) ELSE hist[k]]
    /\ UNCHANGED <<version, pc, call, loc, ret, obs, parseVars, cardVars, routerVars, clientVars>>

\* The service is restarted with a higher redis_mindmap_cache_version; the
\* store keeps its keys.
Restart ==
    /\ \A p \in Procs : pc[p] = "idle"
    /\ version + 1 \in Versions
    /\ version' = version + 1
    /\ UNCHANGED <<now, redis, pc, call, loc, ret, obs, hist, parseVars, cardVars, routerVars, clientVars>>


Quiet(p) == \A q \in Procs \ {p} : pc[q] = "idle"

\* ================================================ ResponseParser (prompts.py)
\* schemas/nvidia.py: ResponseMetadata
Confidences == {"high", "medium", "low", "unknown"}
Diag(tag) == [tag |-> tag, fields |-> {}]
DiagStripped(keys) == [tag |-> "stripped_extra_fields", fields |-> keys]

GetOr(j, k, default) == IF HasKey(j, k) THEN j.o[k] ELSE default

\* ResponseMetadata(**value): extra="forbid", every field has a default.
MetadataValid(j) ==
    /\ j.t = "obj"
    /\ DOMAIN j.o \subseteq {"confidence", "is_partial", "is_unanswerable", "diagnostics"}
    /\ HasKey(j, "confidence") => (IsJStr(j.o.confidence) /\ j.o.confidence.s \in Confidences)
    /\ HasKey(j, "is_partial") => j.o.is_partial.t = "bool"
    /\ HasKey(j, "is_unanswerable") => j.o.is_unanswerable.t = "bool"
    /\ HasKey(j, "diagnostics") => StrListOk(j.o.diagnostics)

MetadataOf(j) ==
    [confidence |-> IF HasKey(j, "confidence") THEN j.o.confidence.s ELSE "unknown",
     is_partial |-> IF HasKey(j, "is_partial") THEN j.o.is_partial.b ELSE FALSE,
     is_unanswerable |-> IF HasKey(j, "is_unanswerable") THEN j.o.is_unanswerable.b ELSE FALSE,
     diagnostics |-> IF HasKey(j, "diagnostics")
                     THEN [i \in 1..Len(j.o.diagnostics.a) |-> Diag(j.o.diagnostics.a[i].s)]
                     ELSE <<>>]

\* schemas/nvidia.py: RAGResponse(**kwargs): extra="forbid"; `confidence` is
\* the alias of legacy_confidence, which populate_by_name also accepts by name.
RagFields == {"answer", "sources", "citations", "metadata", "confidence", "legacy_confidence"}

RagValid(kw) ==
    /\ DOMAIN kw.o \subseteq RagFields
    /\ HasKey(kw, "answer") /\ IsJStr(kw.o.answer)
    /\ HasKey(kw, "sources") => StrListOk(kw.o.sources)
    /\ HasKey(kw, "citations") => StrListOk(kw.o.citations)
    /\ HasKey(kw, "metadata") => MetadataValid(kw.o.metadata)
    /\ \A k \in {"confidence", "legacy_confidence"} :
         HasKey(kw, k) => (kw.o[k].t = "null" \/ IsJStr(kw.o[k]))

LegacyConfidence(kw) ==
    IF HasKey(kw, "confidence") /\ IsJStr(kw.o.confidence) THEN kw.o.confidence.s
    ELSE IF HasKey(kw, "legacy_confidence") /\ IsJStr(kw.o.legacy_confidence)
         THEN kw.o.legacy_confidence.s
    ELSE ""

\* The model built, with _merge_legacy_confidence applied.
RagOf(kw) ==
    LET md == IF HasKey(kw, "metadata") THEN MetadataOf(kw.o.metadata) ELSE MetadataOf(JObj(<<>>))
        legacy == LegacyConfidence(kw)
    IN  [answer |-> kw.o.answer.s,
         sources |-> IF HasKey(kw, "sources") THEN UnJStrs(kw.o.sources) ELSE <<>>,
         citations |-> IF HasKey(kw, "citations") THEN UnJStrs(kw.o.citations) ELSE <<>>,
         metadata |-> IF legacy # "" /\ md.confidence = "unknown"
                      THEN [md EXCEPT !.confidence = legacy] ELSE md]

\* The parser's position: the diagnostics gathered, the value json.loads gave
\* (None when it raised), and the outcome.
ParseState(stage, diag, parsed, result, exc) ==
    [stage |-> stage, diag |-> diag, parsed |-> parsed, result |-> result, exc |-> exc]
Returned(st, rag) == ParseState("returned", st.diag, st.parsed, Some(rag), "")
Raised(st, exc)   == ParseState("raised", st.diag, st.parsed, None, exc)

\* parse_structured_response up to the call of the fallback: json.loads, then
\* RAGResponse(**parsed_json) inside a try that catches JSONDecodeError and
\* ValidationError only.
ParseFirstStage(response) ==
    LET st == ParseState("first", <<>>, None, None, "")
    IN  IF response.form # "json"
        THEN ParseState("fallback", <<Diag("json_decode_error")>>, None, None, "")
        ELSE LET parsed == response.val
                 st1 == [st EXCEPT !.parsed = Some(parsed)]
             IN  IF parsed.t # "obj" THEN Raised(st1, "TypeError")
                 ELSE IF RagValid(parsed) THEN Returned(st1, RagOf(parsed))
                 ELSE [st1 EXCEPT !.stage = "fallback",
                                  !.diag = <<Diag("schema_validation_failed")>>]

AllowedKeys == {"answer", "sources", "citations", "metadata", "confidence"}
Sanitized(parsed) == JObj([k \in DOMAIN parsed.o \cap AllowedKeys |-> parsed.o[k]])
ExtraKeys(parsed) == DOMAIN parsed.o \ AllowedKeys

\* re.search(r"\{.*\}", response, re.DOTALL) and json.loads of the match.
FragmentOf(response) == response.frag

\* RAGResponse(answer=..., sources=..., citations=..., metadata=...) of the
\* final fallback: the keyword values it is given.
PlainTextArgs(response, parsed) ==
    LET isDict == parsed # None /\ parsed[1].t = "obj"
        pick(k, t, default) == IF isDict /\ HasKey(parsed[1], k) /\ parsed[1].o[k].t = t
                               THEN parsed[1].o[k] ELSE default
    IN  JObj([answer |-> pick("answer", "str", JStr(response.text)),
              sources |-> pick("sources", "arr", JArr(<<>>)),
              citations |-> pick("citations", "arr", JArr(<<>>))])

\* Mutant of WithDiagnostics: the messages gathered are not attached.
WithoutDiagnostics(rag, diag_messages) == rag

\* _extract_json_fallback: `if diag_messages:
\* validated.metadata.diagnostics.extend(diag_messages)`.
WithDiagnostics(rag, diag_messages) ==
    [rag EXCEPT !.metadata.diagnostics = @ \o diag_messages]

\* _extract_json_fallback
ExtractJsonFallback(response, st) ==
    LET frag == FragmentOf(response)
        \* parsed_json after the search for a brace-delimited fragment
        found == IF st.parsed # None THEN st
                 ELSE IF frag = None THEN st
                 ELSE IF frag[1].t = "obj" THEN [st EXCEPT !.parsed = frag]
                 ELSE [st EXCEPT !.diag = Append(@, Diag("fallback_json_decode_error"))]
        truthy == found.parsed # None /\ found.parsed[1].t = "obj"
                  /\ DOMAIN found.parsed[1].o # {}
        stripped == IF truthy /\ ExtraKeys(found.parsed[1]) # {}
                    THEN [found EXCEPT !.diag =
                            Append(@, DiagStripped(ExtraKeys(found.parsed[1])))]
                    ELSE found
    IN  IF truthy /\ RagValid(Sanitized(found.parsed[1]))
        THEN LET rag == RagOf(Sanitized(found.parsed[1]))
             IN  Returned(stripped, WithDiagnostics(rag, stripped.diag))
        ELSE LET final == IF truthy
                          THEN [stripped EXCEPT !.diag =
                                  Append(@, Diag("fallback_validation_failed"))]
                          ELSE stripped
                 args == PlainTextArgs(response, final.parsed)
             IN  IF RagValid(args)
                 THEN Returned(final,
                        [RagOf(args) EXCEPT !.metadata =
                            [confidence |-> "low", is_partial |-> TRUE,
                             is_unanswerable |-> FALSE,
                             diagnostics |-> IF final.diag # <<>> THEN final.diag
                                             ELSE <<Diag("Used plain-text fallback because schema validation failed")>>]])
                 ELSE Raised(final, "ValidationError")

\* ----------------------------------------------------- raw LLM responses
JBool(b) == [t |-> "bool", b |-> b]
Choices(k) ==
    CASE k = "answer"     -> {None, Some(JStr("an answer")), Some(JNum(7))}
      [] k = "sources"    -> {None, Some(JStrs(<<"https://arxiv.org/pdf/1">>)),
                              Some(JArr(<<JNum(1)>>)), Some(JStr("https://arxiv.org/pdf/1"))}
      [] k = "citations"  -> {None, Some(JStrs(<<"2401.00001">>)), Some(JArr(<<JNull>>))}
      [] k = "metadata"   -> {None,
                              Some(JObj([confidence |-> JStr("high"), is_partial |-> JBool(FALSE),
                                         is_unanswerable |-> JBool(FALSE),
                                         diagnostics |-> JStrs(<<>>)])),
                              Some(JObj([confidence |-> JStr("certain")])),
                              Some(JObj([diagnostics |-> JStrs(<<"a note by the model">>)])),
                              Some(JStr("high"))}
      [] k = "confidence" -> {None, Some(JStr("medium")), Some(JNum(1))}
      [] k = "reasoning"  -> {None, Some(JStr("chain of thought"))}
      [] k = "legacy_confidence" -> {None, Some(JStr("high"))}

ObjectKeys == {"answer", "sources", "citations", "metadata", "confidence", "reasoning",
               "legacy_confidence"}
ObjectOf(c) == JObj([k \in {x \in ObjectKeys : c[x] # None} |-> c[k][1]])
JsonObjects ==
    {ObjectOf([answer |-> a, sources |-> s, citations |-> c, metadata |-> m,
               confidence |-> l, reasoning |-> r, legacy_confidence |-> n]) :
        a \in Choices("answer"), s \in Choices("sources"), c \in Choices("citations"),
        m \in Choices("metadata"), l \in Choices("confidence"), r \in Choices("reasoning"),
        n \in Choices("legacy_confidence")}
JsonScalars == {JNull, JNum(42), JStr("just a string"), JArr(<<>>), JArr(<<JStr("a")>>)}

\* A response is either JSON as a whole, or text that json.loads rejects, with
\* or without a brace-delimited fragment, which parses (to an object) or not.
Response(form, text, val, frag) == [form |-> form, text |-> text, val |-> val, frag |-> frag]
Responses ==
    {Response("json", "json text", v, None) : v \in JsonObjects \cup JsonScalars}
    \cup {Response("text", "prose around a fragment", JNull, Some(v)) : v \in JsonObjects}
    \cup {Response("text", "prose with {broken json}", JNull, Some(JNull)),
          Response("text", "plain prose", JNull, None),
          Response("text", "", JNull, None),
          Response("text", " \n ", JNull, None)}

\* ============================================ NvidiaClient.generate (client.py)
\* The exception classes a call of the openai library may raise, each with its
\* base class; Exception has none.
BaseOf(cls) ==
    CASE cls = "APITimeoutError"    -> "APIConnectionError"
      [] cls = "APIConnectionError" -> "APIError"
      [] cls = "RateLimitError"     -> "APIStatusError"
      [] cls = "APIStatusError"     -> "APIError"
      [] cls = "APIError"           -> "OpenAIError"
      [] cls = "OpenAIError"        -> "Exception"
      [] cls = "OllamaException"    -> "Exception"
      [] cls = "IndexError"         -> "Exception"
      [] OTHER                      -> ""

\* isinstance(e, of), for e of class cls.
RECURSIVE IsInstance(_, _)
IsInstance(cls, of) == cls = of \/ (BaseOf(cls) # "" /\ IsInstance(BaseOf(cls), of))

Handler(catches, raises) == [catches |-> catches, raises |-> raises]
\* The except clauses of generate, in source order.
Handlers ==
    <<Handler("APIConnectionError", "OllamaConnectionError"),
      Handler("APITimeoutError", "OllamaTimeoutError"),
      Handler("OpenAIError", "OllamaException"),
      Handler("Exception", "OllamaException")>>

\* The error generate raises for an exception of class cls: that of the first
\* except clause the exception is an instance of.
Classify(cls) ==
    LET i == CHOOSE k \in 1..Len(Handlers) :
                 /\ IsInstance(cls, Handlers[k].catches)
                 /\ \A j \in 1..(k - 1) : ~IsInstance(cls, Handlers[j].catches)
    IN  Handlers[i].raises

\* What the remote call does: it raises, or it gives a completion whose first
\* choice carries a text or None.
RemoteFailures == {"APIConnectionError", "APITimeoutError", "RateLimitError", "IndexError"}
Remote(stream, kind, cls, content) ==
    [stream |-> stream, kind |-> kind, cls |-> cls, content |-> content, flaky |-> 0]
NoRemote == Remote(FALSE, "none", "", None)

\* The client is built as OpenAI(api_key=..., base_url=...): max_retries is
\* left at the library's default, and the library sends a request again, up
\* to that many times, when the connection fails, the request times out or
\* the endpoint answers 408, 409, 429 or 5xx.
DefaultMaxRetries == 2
Retried(cls) == IsInstance(cls, "APIConnectionError") \/ IsInstance(cls, "RateLimitError")

\* The requests one call of generate sends: none when stream is set (the
\* raise comes before the remote call); every attempt when the failure that
\* comes out is a retried one; else the attempts that failed first (r.flaky of
\* them) and the one that gave the outcome.
RequestsSent(r) ==
    IF r.stream THEN 0
    ELSE IF r.kind = "raise" /\ Retried(r.cls) THEN 1 + DefaultMaxRetries
    ELSE 1 + r.flaky
NoResult == [kind |-> "none", exc |-> "", content |-> None]

\* generate(model, prompt, stream, **kwargs)
Generate(r) ==
    IF r.stream THEN [NoResult EXCEPT !.kind = "raise", !.exc = Classify("OllamaException")]
    ELSE IF r.kind = "raise" THEN [NoResult EXCEPT !.kind = "raise", !.exc = Classify(r.cls)]
    ELSE [NoResult EXCEPT !.kind = "response", !.content = r.content]

\* ================================================ flashcards (services/flashcards.py)
\* The papers table as get_recent_papers_for_category sees it: the parsed
\* papers of a category, most recently published first.  arxiv_id is unique.
Categories == {"cs.AI", "cs.CL"}
RecentPapers(category) ==
    CASE category = "cs.AI" -> <<"2401.00003", "2401.00002", "2401.00001">>
      [] OTHER -> <<>>
PdfUrl(arxiv_id) == <<"https://arxiv.org/pdf", arxiv_id>>

\* The limits the router lets through (Query(5, ge=1, le=10)), cut to the bound.
Limits == 1..MaxLimit

\* rpm_budget as the service is constructed: the default, and a small one.
DefaultRpmBudget == 40
RpmBudgets == {2, DefaultRpmBudget}
SemaphoreValue(rpm_budget) == rpm_budget \div 2

Prefix(s, n) == SubSeq(s, 1, IF n < Len(s) THEN n ELSE Len(s))

\* Mutant of Candidates: the category filter is dropped.
CandidatesOfAnyCategory(category, limit) == Prefix(RecentPapers("cs.AI"), limit * 4)
\* get_recent_papers_for_category(category, max_candidates=limit * 4)
Candidates(category, limit) == Prefix(RecentPapers(category), limit * 4)
\* Mutant of Taken: candidates[:limit].
TakenUpToLimit(candidates, limit) == Prefix(candidates, limit)
\* candidates[: limit * 2]
Taken(candidates, limit) == Prefix(candidates, limit * 2)

\* What self.nvidia.generate does for one paper: it raises one of the client's
\* errors, returns nothing usable, or returns {"response": content}, where
\* content is the text of the completion or None.
CardResponses ==
    {Response("json", "json text", JObj([answer |-> JStr("an answer")]), None),
     Response("json", "json text", JArr(<<>>), None)}
\* Completions of no text, or of white space only.
BlankResponses ==
    {Response("text", "", JNull, None), Response("text", " \n ", JNull, None)}
CardOutcome(kind, exc, content) == [kind |-> kind, exc |-> exc, content |-> content]
OutcomesWith(contents) ==
    {CardOutcome("raise", e, None) : e \in LlmErrors}
    \cup {CardOutcome("none", "", None), CardOutcome("response", "", None)}
    \cup {CardOutcome("response", "", Some(r)) : r \in contents}
CardOutcomes == OutcomesWith(CardResponses)
BlankOutcomes == OutcomesWith(BlankResponses)

\* parse_structured_response as a whole.
ParseStructured(response) ==
    LET st == ParseFirstStage(response)
    IN  IF st.stage = "fallback" THEN ExtractJsonFallback(response, st) ELSE st

\* _clean_text, _extract_headline, _extract_insight and _extract_why on the
\* texts of the model: at most twelve words and two sentences, with no label
\* and no markup, so that cleaning strips nothing but the blank text.
BlankTexts == {"", " \n "}
CleanText(text) == IF text \in BlankTexts THEN "" ELSE text
ExtractHeadline(text) == IF CleanText(text) = "" THEN "Research highlight" ELSE CleanText(text)
ExtractInsight(text, headline) == CleanText(text)
ExtractWhy(answer, insight, headline) ==
    IF CleanText(answer) \in {insight, headline} \/ CleanText(answer) = ""
    THEN None ELSE Some(CleanText(answer))

\* Whether a generation succeeded: the call returned a response and the parser
\* returned a result for it.
GenerationSucceeds(outcome) ==
    /\ outcome.kind = "response"
    /\ outcome.content # None
    /\ ParseStructured(outcome.content[1]).stage = "returned"

\* Mutant of SummarizePaper: an exception of the parser leaves the task.
SummarizePaperLettingParserRaise(category, arxiv_id, outcome) ==
    IF outcome.kind # "response" THEN [exc |-> "", card |-> None]
    ELSE IF outcome.content = None THEN [exc |-> "TypeError", card |-> None]
    ELSE LET parsed == ParseStructured(outcome.content[1])
         IN  IF parsed.stage = "raised" THEN [exc |-> parsed.exc, card |-> None]
             ELSE [exc |-> "", card |-> Some([category |-> category, arxiv_id |-> arxiv_id,
                       headline |-> ExtractHeadline(parsed.result[1].answer),
                       insight |-> ExtractInsight(parsed.result[1].answer,
                                                  ExtractHeadline(parsed.result[1].answer)),
                       why_it_matters |-> None, source_url |-> PdfUrl(arxiv_id)])]

\* Mutant of SummarizePaper: a failed generation gives a placeholder card.
SummarizePaperWithPlaceholder(category, arxiv_id, outcome) ==
    IF GenerationSucceeds(outcome)
    THEN SummarizePaperLettingParserRaise(category, arxiv_id, outcome)
    ELSE [exc |-> "", card |-> Some([category |-> category, arxiv_id |-> arxiv_id,
              headline |-> "Summary unavailable", insight |-> "Summary unavailable",
              why_it_matters |-> None, source_url |-> PdfUrl(arxiv_id)])]

\* _summarize_paper: the card, or None when the call raised, gave no response,
\* or anything after it raised (`except Exception`).  exc is what leaves the
\* coroutine: nothing.
SummarizePaper(category, arxiv_id, outcome) ==
    IF outcome.kind # "response" \/ outcome.content = None THEN [exc |-> "", card |-> None]
    ELSE LET parsed == ParseStructured(outcome.content[1])
         IN  IF parsed.stage = "raised" THEN [exc |-> "", card |-> None]
             ELSE LET raw_answer == parsed.result[1].answer
                      headline == ExtractHeadline(raw_answer)
                      insight == ExtractInsight(raw_answer, headline)
                  IN  [exc |-> "",
                       card |-> Some([category |-> category, arxiv_id |-> arxiv_id,
                                      headline |-> headline, insight |-> insight,
                                      why_it_matters |-> ExtractWhy(raw_answer, insight, headline),
                                      source_url |-> PdfUrl(arxiv_id)])]

\* ---------------------------------- the flashcards table (repositories/flashcards.py)
\* _json_ready(card): the summary blob, without the two timestamps.
JsonReady(card) ==
    [category |-> card.category, arxiv_id |-> card.arxiv_id, headline |-> card.headline,
     insight |-> card.insight, why_it_matters |-> card.why_it_matters,
     source_url |-> card.source_url]

\* The record _regenerate builds for a card, as the row the table keeps.
RecordOf(category, card, generated_at, expires_at) ==
    [category |-> category, arxiv_id |-> card.arxiv_id, headline |-> card.headline,
     insight |-> card.insight, why_it_matters |-> card.why_it_matters,
     summary_json |-> JsonReady(card),
     generated_at |-> generated_at, expires_at |-> expires_at]

\* The card as _regenerate returns it: the summary with its two timestamps.
Stamped(card, generated_at, expires_at) ==
    [category |-> card.category, arxiv_id |-> card.arxiv_id, headline |-> card.headline,
     insight |-> card.insight, why_it_matters |-> card.why_it_matters,
     source_url |-> card.source_url,
     generated_at |-> generated_at, expires_at |-> expires_at]

\* _record_to_dict
RecordToDict(rec) ==
    [category |-> rec.category, arxiv_id |-> rec.arxiv_id, headline |-> rec.headline,
     insight |-> rec.insight, why_it_matters |-> rec.why_it_matters,
     source_url |-> rec.summary_json.source_url,
     generated_at |-> rec.generated_at, expires_at |-> rec.expires_at]

SamePair(r, s) == r.category = s.category /\ r.arxiv_id = s.arxiv_id
Range(s) == {s[i] : i \in 1..Len(s)}

\* Mutant of UpsertCards: a plain INSERT, with no ON CONFLICT clause.
InsertCards(tbl, records) == tbl \cup Range(records)

\* upsert_cards: INSERT ... ON CONFLICT ON CONSTRAINT uq_flashcards_category_arxiv_id
\* DO UPDATE: a row of the same (category, arxiv_id) takes the new columns.
UpsertCards(tbl, records) ==
    {r \in tbl : \A i \in 1..Len(records) : ~SamePair(r, records[i])} \cup Range(records)

\* Mutant of FreshRows: expires_at >= now.
FreshRowsIncludingNow(tbl, category, t) ==
    {r \in tbl : r.category = category /\ r.expires_at >= t}

\* get_fresh: the WHERE clause.
FreshRows(tbl, category, t) ==
    {r \in tbl : r.category = category /\ r.expires_at > t}

\* ORDER BY generated_at DESC: every order the database may give to rows of
\* equal generated_at.
Ordered(rows) ==
    {s \in [1..Cardinality(rows) -> rows] :
        /\ \A i, j \in 1..Cardinality(rows) : i < j => s[i] # s[j]
        /\ \A i, j \in 1..Cardinality(rows) : i < j => s[i].generated_at >= s[j].generated_at}

\* get_fresh(category, limit, now): the results it may return.
GetFresh(tbl, category, limit, t) ==
    {Prefix(s, limit) : s \in Ordered(FreshRows(tbl, category, t))}

\* ------------------------------------------------------- FlashcardService
NoBatch == [pc |-> "idle", category |-> "", limit |-> 0, refresh |-> FALSE,
            candidates |-> <<>>, tasks |-> <<>>, sem |-> 0,
            cards |-> <<>>, regenerated |-> FALSE, exc |-> ""]
NoSeen  == [calls |-> <<>>, inflight |-> 0, upserts |-> 0, fresh |-> None,
            at |-> 0, before |-> {}]
Pairs == {<<c, a>> : c \in Categories,
                       a \in UNION {Range(RecentPapers(x)) : x \in Categories}}
TaskQueued == [st |-> "queued", ok |-> FALSE, card |-> None]

\* The cards of the tasks that returned one, in task order:
\* [s for s in await asyncio.gather(*tasks) if s].
Summaries(tasks) ==
    LET kept == SelectSeq(tasks, LAMBDA t : t.card # None)
    IN  [i \in 1..Len(kept) |-> kept[i].card[1]]

\* Mutant of Kept: every summary is kept.
KeptAll(summaries, limit) == summaries
\* cards = summaries[:limit]
Kept(summaries, limit) == Prefix(summaries, limit)

\* Mutant of ServedFromStore: the fresh cards never suffice.
ServedFromStoreNever(fresh_cards, limit) == Len(fresh_cards) > limit
\* get_cards: `if len(fresh_cards) >= limit`
ServedFromStore(fresh_cards, limit) == Len(fresh_cards) >= limit

\* get_cards up to its first await: the fresh cards, unless refresh; with
\* enough of them, the return; else _regenerate up to `await asyncio.gather`:
\* the candidates, the semaphore and one task per taken candidate.
GetCards ==
    /\ batch.pc = "idle"
    /\ served < MaxRequests
    /\ served' = served + 1
    /\ \E category \in Categories, limit \in Limits, refresh \in BOOLEAN :
       \E fresh_cards \in (IF refresh THEN {<<>>} ELSE GetFresh(table, category, limit, now)) :
         LET called == [NoBatch EXCEPT !.category = category, !.limit = limit,
                                       !.refresh = refresh]
             candidates == Candidates(category, limit)
         IN  /\ seen' = [NoSeen EXCEPT !.calls = [i \in 1..Len(candidates) |-> 0],
                                       !.fresh = IF refresh THEN None ELSE Some(fresh_cards),
                                       !.at = now, !.before = table]
             /\ batch' =
                  IF ServedFromStore(fresh_cards, limit)
                  THEN [called EXCEPT !.pc = "done",
                          !.cards = [i \in 1..Len(fresh_cards) |-> RecordToDict(fresh_cards[i])]]
                  ELSE IF candidates = <<>>
                  THEN [called EXCEPT !.pc = "done", !.regenerated = TRUE]
                  ELSE [called EXCEPT !.pc = "gather", !.candidates = candidates,
                          !.tasks = [i \in 1..Len(Taken(candidates, limit)) |-> TaskQueued],
                          !.sem = SemaphoreValue(rpm)]
    /\ UNCHANGED <<table, persisted, rpm, nim, lastRegen, sweep, now, cacheRest, parseVars, routerVars, clientVars>>

\* Mutant of Admitted: a queued task starts whatever the others do.
AdmittedUnbounded(i) == batch.tasks[i].st = "queued"

\* When task i gets to make its call: the event loop starts tasks in the order
\* of their creation, `async with semaphore` needs a free slot, and
\* self.nvidia.generate is a blocking call, during which no other task runs.
Admitted(i) ==
    /\ batch.tasks[i].st = "queued"
    /\ batch.sem > 0
    /\ \A j \in 1..Len(batch.tasks) : batch.tasks[j].st # "running"
    /\ \A j \in 1..(i - 1) : batch.tasks[j].st # "queued"

\* summarize(paper): the semaphore is taken and self.nvidia.generate is called.
TaskCall(i) ==
    /\ batch.pc = "gather"
    /\ Admitted(i)
    /\ batch' = [batch EXCEPT !.tasks[i].st = "running", !.sem = @ - 1]
    /\ seen' = [seen EXCEPT !.calls[i] = @ + 1, !.inflight = @ + 1]
    /\ UNCHANGED <<table, persisted, served, rpm, nim, lastRegen, sweep, now, cacheRest, parseVars, routerVars, clientVars>>

\* summarize(paper): the call ends, _summarize_paper returns and the semaphore
\* is released.  An exception leaving the task would leave gather and get_cards.
TaskReturn(i) ==
    /\ batch.pc = "gather"
    /\ batch.tasks[i].st = "running"
    /\ \E outcome \in nim :
         LET res == SummarizePaper(batch.category, batch.candidates[i], outcome)
         IN  batch' = IF res.exc # ""
                      THEN [batch EXCEPT !.pc = "done", !.exc = res.exc, !.sem = @ + 1,
                                         !.tasks[i].st = "done"]
                      ELSE [batch EXCEPT !.sem = @ + 1,
                                         !.tasks[i] = [st |-> "done",
                                                       ok |-> GenerationSucceeds(outcome),
                                                       card |-> res.card]]
    /\ seen' = [seen EXCEPT !.inflight = @ - 1]
    /\ UNCHANGED <<table, persisted, served, rpm, nim, lastRegen, sweep, now, cacheRest, parseVars, routerVars, clientVars>>

\* _regenerate after gather: the cards kept, their records, one upsert_cards
\* when there is a record, and the return of get_cards.
Persist ==
    /\ batch.pc = "gather"
    /\ \A i \in 1..Len(batch.tasks) : batch.tasks[i].st = "done"
    /\ LET cards == Kept(Summaries(batch.tasks), batch.limit)
           expires_at == now + CardTtl
           records == [i \in 1..Len(cards) |-> RecordOf(batch.category, cards[i], now, expires_at)]
       IN  /\ table' = IF records # <<>> THEN UpsertCards(table, records) ELSE table
           /\ persisted' = [pr \in Pairs |->
                              IF \E i \in 1..Len(records) :
                                    <<records[i].category, records[i].arxiv_id>> = pr
                              THEN Some(CHOOSE r \in Range(records) :
                                          <<r.category, r.arxiv_id>> = pr)
                              ELSE persisted[pr]]
           /\ seen' = [seen EXCEPT !.upserts = @ + (IF records # <<>> THEN 1 ELSE 0)]
           /\ batch' = [batch EXCEPT !.pc = "done", !.regenerated = TRUE,
                          !.cards = [i \in 1..Len(cards) |-> Stamped(cards[i], now, expires_at)]]
    /\ UNCHANGED <<served, rpm, nim, lastRegen, sweep, now, cacheRest, parseVars, routerVars, clientVars>>

\* The router takes the result of get_cards.
FinishCards ==
    /\ batch.pc = "done"
    /\ batch' = NoBatch
    /\ seen' = NoSeen
    /\ UNCHANGED <<table, persisted, served, rpm, nim, lastRegen, sweep, now, cacheRest, parseVars, routerVars, clientVars>>

\* The same step, with a note of the call when it regenerated: its category,
\* its limit and the time of the regeneration.
FinishCardsNoted ==
    /\ batch.pc = "done"
    /\ batch' = NoBatch
    /\ seen' = NoSeen
    /\ lastRegen' = IF batch.regenerated
                    THEN Some([category |-> batch.category, limit |-> batch.limit, at |-> now])
                    ELSE lastRegen
    /\ UNCHANGED <<table, persisted, served, rpm, nim, sweep, now, cacheRest, parseVars, routerVars, clientVars>>

\* ------------------------------------------------------- cleanup_expired
NoSweep == [st |-> "none", limit |-> 0, exc |-> "", deleted |-> None, before |-> {}]

\* delete_expired: the WHERE clause, expires_at < now.
ExpiredRows(tbl, t) == {r \in tbl : r.expires_at < t}

\* delete_expired: `delete(self.table).where(...).limit(limit)`.  A Delete
\* construct has no limit(): building the statement raises AttributeError;
\* and PostgreSQL, the database of upsert_cards, has no DELETE ... LIMIT and
\* rejects such a statement.  Either way the call raises before any row is
\* removed and before the commit.
DeleteExpired(tbl, limit, t) ==
    {[exc |-> e, table |-> tbl, deleted |-> None] :
        e \in {"AttributeError", "ProgrammingError"}}

\* DELETE /flashcards/expired: cleanup_expired(limit) and what became of it.
CleanupExpired ==
    /\ batch.pc = "idle"
    /\ sweep.st = "none"
    /\ \E limit \in Limits : \E res \in DeleteExpired(table, limit, now) :
         /\ table' = res.table
         /\ sweep' = [st |-> "done", limit |-> limit, exc |-> res.exc,
                      deleted |-> res.deleted, before |-> table]
    /\ UNCHANGED <<persisted, batch, seen, served, rpm, nim, lastRegen, now, cacheRest, parseVars, routerVars, clientVars>>

\* The endpoint has answered.
FinishSweep ==
    /\ sweep.st = "done"
    /\ sweep' = NoSweep
    /\ UNCHANGED <<table, persisted, batch, seen, served, rpm, nim, lastRegen, now, cacheRest, parseVars, routerVars, clientVars>>

\* Time passes between two requests and while an inference call is running.
CardTick ==
    /\ now < MaxCardTime
    /\ batch.pc = "idle" \/ \E i \in 1..Len(batch.tasks) : batch.tasks[i].st = "running"
    /\ now' = now + 1
    /\ UNCHANGED <<table, persisted, batch, seen, served, rpm, nim, lastRegen, sweep, cacheRest, parseVars, routerVars, clientVars>>

\* ------------------------------------------- the concept graph prompt
\* MindMapGenerator.generate hands the paper's chunks to generate_mindmap,
\* which assembles the text of the prompt from them.  A passage is a chunk:
\* its section label and its text.  A character of a text is named by the
\* passage it comes from and its place there, so that what the assembled
\* text holds, and in which order, can be read off it.
MaxPassages == 3
MaxPassageLen == 2
MaxBudget == 3

SectionLabels == {"Introduction", "Method", "References"}
Denylist == {"References", "Acknowledgements", "Appendix", "Funding"}

Passage(section, len) == [section |-> section, len |-> len]
PassageText(ps, k) == [j \in 1..ps[k].len |-> [p |-> k, i |-> j]]

\* The labels of the passages in the order they first appear, the denylisted
\* ones skipped.
RECURSIVE SectionOrder(_, _, _)
SectionOrder(ps, k, found) ==
    IF k > Len(ps) THEN found
    ELSE IF ps[k].section \in Denylist
              \/ \E j \in 1..Len(found) : found[j] = ps[k].section
         THEN SectionOrder(ps, k + 1, found)
         ELSE SectionOrder(ps, k + 1, Append(found, ps[k].section))

\* The text of one section: its passages' texts, in passage order.
RECURSIVE SectionText(_, _, _)
SectionText(ps, label, k) ==
    IF k > Len(ps) THEN <<>>
    ELSE (IF ps[k].section = label THEN PassageText(ps, k) ELSE <<>>)
         \o SectionText(ps, label, k + 1)

GroupBySection(ps) ==
    LET order == SectionOrder(ps, 1, <<>>)
    IN  [n \in 1..Len(order) |->
            [section |-> order[n], body |-> SectionText(ps, order[n], 1)]]

\* A section that does not fit is cut where the budget ends.
SplitWhatDoesNotFit(len, used, budget) == used < budget
\* A section that does not fit is cut only when no section boundary is there
\* to stop at: it is the first one and alone exceeds the budget.
SplitAllowed(len, used, budget) == used = 0 /\ len > budget

\* The sections taken into the text, whole while they fit.
RECURSIVE TruncateAtBoundary(_, _, _)
TruncateAtBoundary(secs, used, budget) ==
    IF secs = <<>> THEN <<>>
    ELSE LET s == Head(secs)
             len == Len(s.body)
         IN  IF used + len <= budget
             THEN <<s>> \o TruncateAtBoundary(Tail(secs), used + len, budget)
             ELSE IF SplitAllowed(len, used, budget)
                  THEN <<[s EXCEPT !.body = SubSeq(s.body, 1, budget - used)]>>
                  ELSE <<>>

BuildConceptGraphPrompt(ps, budget) ==
    TruncateAtBoundary(GroupBySection(ps), 0, budget)

NoPrompt == [st |-> "none", passages |-> <<>>, budget |-> 0, text |-> <<>>]

PassageLists ==
    UNION {[1..n -> {Passage(l, c) : l \in SectionLabels, c \in 1..MaxPassageLen}]
             : n \in 0..MaxPassages}

\* generate_mindmap builds the text of its prompt.
BuildPrompt ==
    /\ prompt.st = "given"
    /\ prompt' = [prompt EXCEPT !.st = "built",
                     !.text = BuildConceptGraphPrompt(prompt.passages, prompt.budget)]
    /\ UNCHANGED <<remote, reply, requests, cacheVars, parseVars, cardVars, routerVars>>

\* No request of the mind map endpoint is being served, no call of the client.
RouterAtRest ==
    /\ http = [p \in Procs |-> NoHttp]
    /\ gen = LlmOutcomes
    /\ remote = NoRemote
    /\ reply = NoResult
    /\ requests = 0
    /\ prompt = NoPrompt

\* The flashcard service at rest, over an empty table.
CardsAtRest ==
    /\ table = {}
    /\ persisted = [pr \in Pairs |-> None]
    /\ batch = NoBatch
    /\ seen = NoSeen
    /\ served = 0
    /\ rpm = DefaultRpmBudget
    /\ nim = CardOutcomes
    /\ lastRegen = None
    /\ sweep = NoSweep


NoResp == [form |-> "none"]

Init ==
    /\ now = 0
    /\ version = 1
    /\ redis = [k \in {} |-> [val |-> JNull, exp |-> 0]]
    /\ pc = [p \in Procs |-> "idle"]
    /\ call = [p \in Procs |-> NoCall]
    /\ loc = [p \in Procs |-> NoLoc]
    /\ ret = [p \in Procs |-> NoRet]
    /\ obs = [p \in Procs |-> NoObs]
    /\ hist = [k \in AllKeys |-> NoHist]
    /\ resp = NoResp
    /\ out = NoResp
    /\ CardsAtRest
    /\ RouterAtRest

\* One operation at a time, while time passes and the service is restarted:
\* a coroutine steps only while every other is idle.
Next ==
    \/ Tick
    \/ Restart
    \/ \E p \in Procs : Quiet(p) /\ CacheGetRead(p)
    \/ \E p \in Procs : Quiet(p) /\ CacheGetTtl(p)
    \/ \E p \in Procs : Quiet(p) /\ CacheGetWrite(p)
    \/ \E p \in Procs : Quiet(p) /\ ServiceGenerate(p)
    \/ \E p \in Procs : Quiet(p) /\ ServiceSet(p)
    \/ \E p \in Procs : Quiet(p) /\ CacheSet(p)
    \/ \E p \in Procs : Quiet(p) /\ CacheInvalidate(p)
    \/ \E p \in Procs : Quiet(p) /\ CacheStatusRead(p)
    \/ \E p \in Procs : Quiet(p) /\ CacheStatusTtl(p)
    \/ \E p \in Procs : Quiet(p) /\ Finish(p)
Spec == Init /\ [][Next]_vars

\* Operations overlap: coroutines interleave at every await, within one tick
\* of the clock and one configuration.
NextConc ==
    \/ \E p \in Procs : CacheGetRead(p)
    \/ \E p \in Procs : CacheGetTtl(p)
    \/ \E p \in Procs : CacheGetWrite(p)
    \/ \E p \in Procs : ServiceGenerate(p)
    \/ \E p \in Procs : ServiceSet(p)
    \/ \E p \in Procs : CacheSet(p)
    \/ \E p \in Procs : CacheInvalidate(p)
    \/ \E p \in Procs : CacheStatusRead(p)
    \/ \E p \in Procs : CacheStatusTtl(p)
    \/ \E p \in Procs : Finish(p)
SpecConc == Init /\ [][NextConc]_vars

\* ----------------------------------------------- gets alone on one entry
\* The store after a set(A) that has returned; from then on only calls of
\* MindMapCache.get and of get_or_generate, overlapping at every await.
InitGets ==
    /\ now = 0
    /\ version = 1
    /\ \E paper \in Papers : \E mindmap \in MindMapsFor(paper) :
         /\ redis = [k \in {CacheKey(paper)} |->
                       [val |-> DumpEntry(SetEntry(mindmap)), exp |-> now + TtlTicks]]
         /\ hist = [k \in AllKeys |->
                      IF k = CacheKey(paper)
                      THEN [lastOp |-> "set", setAt |-> now, setMM |-> Some(mindmap), gets |-> 0]
                      ELSE NoHist]
    /\ pc = [p \in Procs |-> "idle"]
    /\ call = [p \in Procs |-> NoCall]
    /\ loc = [p \in Procs |-> NoLoc]
    /\ ret = [p \in Procs |-> NoRet]
    /\ obs = [p \in Procs |-> NoObs]
    /\ resp = NoResp
    /\ out = NoResp
    /\ CardsAtRest
    /\ RouterAtRest

\* A call starts whether or not another is in flight.
GetStarts(p) ==
    /\ pc[p] = "idle"
    /\ \E op \in {"get", "get_or_generate"}, paper \in Papers :
         GetRead(p, op, paper, op = "get_or_generate")
    /\ UNCHANGED <<now, version, redis, hist, parseVars, cardVars, routerVars, clientVars>>

NextGets ==
    \/ \E p \in Procs : GetStarts(p)
    \/ \E p \in Procs : CacheGetTtl(p)
    \/ \E p \in Procs : CacheGetWrite(p)
    \/ \E p \in Procs : Finish(p)
SpecGets == InitGets /\ [][NextGets]_vars

\* ------------------------------------------------ the mind map endpoints
\* GET and DELETE /visualization/{paper_id}/mindmap, requests overlapping, in
\* front of an inference service that may also return the odd trees.
InitRouter ==
    /\ now = 0
    /\ version = 1
    /\ redis = [k \in {} |-> [val |-> JNull, exp |-> 0]]
    /\ pc = [p \in Procs |-> "idle"]
    /\ call = [p \in Procs |-> NoCall]
    /\ loc = [p \in Procs |-> NoLoc]
    /\ ret = [p \in Procs |-> NoRet]
    /\ obs = [p \in Procs |-> NoObs]
    /\ hist = [k \in AllKeys |-> NoHist]
    /\ resp = NoResp
    /\ out = NoResp
    /\ CardsAtRest
    /\ http = [p \in Procs |-> NoHttp]
    /\ gen = LlmOutcomes \cup OddOutcomes
    /\ remote = NoRemote
    /\ reply = NoResult
    /\ requests = 0
    /\ prompt = NoPrompt

NextRouter ==
    \/ \E p \in Procs : RouterGetMindmap(p)
    \/ \E p \in Procs : CacheGetTtl(p)
    \/ \E p \in Procs : CacheGetWrite(p)
    \/ \E p \in Procs : ServiceGenerate(p)
    \/ \E p \in Procs : ServiceSet(p)
    \/ \E p \in Procs : RouterRespond(p)
    \/ \E p \in Procs : CacheInvalidate(p)
    \/ \E p \in Procs : Finish(p)
SpecRouter == InitRouter /\ [][NextRouter]_vars

\* ------------------------------------------------- the client, one call
ClientGenerate ==
    /\ reply = NoResult
    /\ remote # NoRemote
    /\ reply' = Generate(remote)
    /\ requests' = RequestsSent(remote)
    /\ UNCHANGED <<remote, prompt, cacheVars, parseVars, cardVars, routerVars>>

InitClient ==
    /\ now = 0
    /\ version = 1
    /\ redis = [k \in {} |-> [val |-> JNull, exp |-> 0]]
    /\ pc = [p \in Procs |-> "idle"]
    /\ call = [p \in Procs |-> NoCall]
    /\ loc = [p \in Procs |-> NoLoc]
    /\ ret = [p \in Procs |-> NoRet]
    /\ obs = [p \in Procs |-> NoObs]
    /\ hist = [k \in AllKeys |-> NoHist]
    /\ resp = NoResp
    /\ out = NoResp
    /\ CardsAtRest
    /\ http = [p \in Procs |-> NoHttp]
    /\ gen = LlmOutcomes
    /\ \E flaky \in 0..DefaultMaxRetries :
         remote \in {[r EXCEPT !.flaky = flaky] : r \in
                 {Remote(s, "raise", c, None) : s \in BOOLEAN, c \in RemoteFailures}
                 \cup {Remote(s, "completion", "", None) : s \in BOOLEAN}
                 \cup {Remote(s, "completion", "", Some(r)) :
                          s \in BOOLEAN, r \in Responses}}
    /\ reply = NoResult
    /\ requests = 0
    /\ prompt = NoPrompt

NextClient == ClientGenerate
SpecClient == InitClient /\ [][NextClient]_vars

\* ------------------------------------- the concept graph prompt, one call
InitPrompt ==
    /\ now = 0
    /\ version = 1
    /\ redis = [k \in {} |-> [val |-> JNull, exp |-> 0]]
    /\ pc = [p \in Procs |-> "idle"]
    /\ call = [p \in Procs |-> NoCall]
    /\ loc = [p \in Procs |-> NoLoc]
    /\ ret = [p \in Procs |-> NoRet]
    /\ obs = [p \in Procs |-> NoObs]
    /\ hist = [k \in AllKeys |-> NoHist]
    /\ resp = NoResp
    /\ out = NoResp
    /\ CardsAtRest
    /\ http = [p \in Procs |-> NoHttp]
    /\ gen = LlmOutcomes
    /\ remote = NoRemote
    /\ reply = NoResult
    /\ requests = 0
    /\ \E ps \in PassageLists, budget \in 1..MaxBudget :
         prompt = [st |-> "given", passages |-> ps, budget |-> budget, text |-> <<>>]

NextPrompt == BuildPrompt
SpecPrompt == InitPrompt /\ [][NextPrompt]_vars

\* ------------------------------------------- the parser as a state machine
InitParse ==
    /\ now = 0
    /\ version = 1
    /\ redis = [k \in {} |-> [val |-> JNull, exp |-> 0]]
    /\ pc = [p \in Procs |-> "idle"]
    /\ call = [p \in Procs |-> NoCall]
    /\ loc = [p \in Procs |-> NoLoc]
    /\ ret = [p \in Procs |-> NoRet]
    /\ obs = [p \in Procs |-> NoObs]
    /\ hist = [k \in AllKeys |-> NoHist]
    /\ resp \in Responses
    /\ out = ParseState("start", <<>>, None, None, "")
    /\ CardsAtRest
    /\ RouterAtRest

\* parse_structured_response: the try block.
ParseFirst ==
    /\ out.stage = "start"
    /\ out' = ParseFirstStage(resp)
    /\ UNCHANGED <<resp, cacheVars, cardVars, routerVars, clientVars>>

\* parse_structured_response: `return ResponseParser._extract_json_fallback(...)`.
ParseFallback ==
    /\ out.stage = "fallback"
    /\ out' = ExtractJsonFallback(resp, out)
    /\ UNCHANGED <<resp, cacheVars, cardVars, routerVars, clientVars>>

NextParse == ParseFirst \/ ParseFallback
SpecParse == InitParse /\ [][NextParse]_vars

\* ------------------------------------------ the flashcard service, one request
\* at a time, while time passes
InitCards ==
    /\ now = 0
    /\ version = 1
    /\ redis = [k \in {} |-> [val |-> JNull, exp |-> 0]]
    /\ pc = [p \in Procs |-> "idle"]
    /\ call = [p \in Procs |-> NoCall]
    /\ loc = [p \in Procs |-> NoLoc]
    /\ ret = [p \in Procs |-> NoRet]
    /\ obs = [p \in Procs |-> NoObs]
    /\ hist = [k \in AllKeys |-> NoHist]
    /\ resp = NoResp
    /\ out = NoResp
    /\ table = {}
    /\ persisted = [pr \in Pairs |-> None]
    /\ batch = NoBatch
    /\ seen = NoSeen
    /\ served = 0
    /\ rpm \in RpmBudgets
    /\ nim = CardOutcomes
    /\ lastRegen = None
    /\ sweep = NoSweep
    /\ RouterAtRest

NextCards ==
    \/ GetCards
    \/ \E i \in 1..Len(batch.tasks) : TaskCall(i)
    \/ \E i \in 1..Len(batch.tasks) : TaskReturn(i)
    \/ Persist
    \/ FinishCards
    \/ CardTick
SpecCards == InitCards /\ [][NextCards]_vars

\* The same service, with a note kept of the last call that regenerated.
NextCardsAgain ==
    \/ GetCards
    \/ \E i \in 1..Len(batch.tasks) : TaskCall(i)
    \/ \E i \in 1..Len(batch.tasks) : TaskReturn(i)
    \/ Persist
    \/ FinishCardsNoted
    \/ CardTick
SpecCardsAgain == InitCards /\ [][NextCardsAgain]_vars

\* The flashcard service and the cleanup endpoint, one request at a time.
NextSweep ==
    \/ sweep.st = "none" /\ GetCards
    \/ sweep.st = "none" /\ \E i \in 1..Len(batch.tasks) : TaskCall(i)
    \/ sweep.st = "none" /\ \E i \in 1..Len(batch.tasks) : TaskReturn(i)
    \/ sweep.st = "none" /\ Persist
    \/ sweep.st = "none" /\ FinishCards
    \/ sweep.st = "none" /\ CardTick
    \/ CleanupExpired
    \/ FinishSweep
SpecSweep == InitCards /\ [][NextSweep]_vars

\* The service constructed with any rpm_budget from 1 up, under the scheduling
\* of the event loop: a task that can take the semaphore does so, an inference
\* call that is running ends, and _regenerate goes on once gather has ended.
InitCardsAnyBudget ==
    /\ now = 0
    /\ version = 1
    /\ redis = [k \in {} |-> [val |-> JNull, exp |-> 0]]
    /\ pc = [p \in Procs |-> "idle"]
    /\ call = [p \in Procs |-> NoCall]
    /\ loc = [p \in Procs |-> NoLoc]
    /\ ret = [p \in Procs |-> NoRet]
    /\ obs = [p \in Procs |-> NoObs]
    /\ hist = [k \in AllKeys |-> NoHist]
    /\ resp = NoResp
    /\ out = NoResp
    /\ table = {}
    /\ persisted = [pr \in Pairs |-> None]
    /\ batch = NoBatch
    /\ seen = NoSeen
    /\ served = 0
    /\ rpm \in {1} \cup RpmBudgets
    /\ nim = CardOutcomes
    /\ lastRegen = None
    /\ sweep = NoSweep
    /\ RouterAtRest

SpecCardsFair ==
    /\ InitCardsAnyBudget
    /\ [][NextCards]_vars
    /\ WF_vars(\E i \in 1..Len(batch.tasks) : TaskCall(i))
    /\ WF_vars(\E i \in 1..Len(batch.tasks) : TaskReturn(i))
    /\ WF_vars(Persist)

\* The same service in front of an inference service whose completions, when
\* it gives one, carry no text.
InitCardsBlank ==
    /\ now = 0
    /\ version = 1
    /\ redis = [k \in {} |-> [val |-> JNull, exp |-> 0]]
    /\ pc = [p \in Procs |-> "idle"]
    /\ call = [p \in Procs |-> NoCall]
    /\ loc = [p \in Procs |-> NoLoc]
    /\ ret = [p \in Procs |-> NoRet]
    /\ obs = [p \in Procs |-> NoObs]
    /\ hist = [k \in AllKeys |-> NoHist]
    /\ resp = NoResp
    /\ out = NoResp
    /\ table = {}
    /\ persisted = [pr \in Pairs |-> None]
    /\ batch = NoBatch
    /\ seen = NoSeen
    /\ served = 0
    /\ rpm \in RpmBudgets
    /\ nim = BlankOutcomes
    /\ lastRegen = None
    /\ sweep = NoSweep
    /\ RouterAtRest
SpecCardsBlank == InitCardsBlank /\ [][NextCards]_vars

\* ================================================================ claims
Done(p, ops) == pc[p] = "done" /\ call[p].op \in ops
EntryAt(key) == ParseEntry(redis[key].val)

\* C1: for every raw response, parse_structured_response returns a result,
\* conformant or degraded, and never raises.
C1_ParseNeverRaises == out.stage # "raised"

\* C2: a get_or_generate whose generation or validation failed after a miss
\* has made no cache.set and no write to the store, and the key it missed on
\* is still absent when the call fails.
C2_FailedGenerationCachesNothing ==
    \A p \in Procs :
        (Done(p, {"get_or_generate"}) /\ ret[p].kind = "raise")
        => /\ obs[p].hit = "miss"
           /\ obs[p].sets = 0
           /\ obs[p].writes = 0
           /\ loc[p].key[1] \notin DOMAIN redis

C2_Witness ==
    \E p \in Procs :
        /\ Done(p, {"get_or_generate"})
        /\ ret[p].kind = "raise" /\ ret[p].exc = "ValidationError"
        /\ obs[p].llm = 1

\* C3: after set(key) at time t with time-to-live T and no further set, the
\* entry is never readable at or after t + T, whatever gets were issued.
C3_NeverReadablePastExpiry ==
    \A k \in DOMAIN redis :
        hist[k].lastOp \in {"set", "get"} => now < hist[k].setAt + TtlTicks

\* C4: after set(key) and n gets, one at a time, on the entry still in the
\* store, the stored hit_count is n.
C4_HitCountCountsGets ==
    \A k \in DOMAIN redis :
        hist[k].lastOp \in {"set", "get"} => EntryAt(k).hit_count = hist[k].gets

C4_Witness ==
    \E k \in DOMAIN redis : hist[k].lastOp = "get" /\ hist[k].gets = MaxHits

\* C5: a get that directly follows set(A), before the TTL has elapsed, returns
\* a mind map equal to A in every field.
C5_RoundTrip ==
    \A p \in Procs :
        (Done(p, {"get", "get_or_generate"}) /\ obs[p].fresh)
        => /\ ret[p].kind = "mindmap"
           /\ ret[p].mindmap = obs[p].h[1].setMM

C5_Witness ==
    \E p \in Procs :
        /\ Done(p, {"get"}) /\ obs[p].fresh
        /\ ret[p].kind = "mindmap"
        /\ ret[p].mindmap[1].root = RootA
        /\ ret[p].mindmap[1].generated_at % TicksPerSec # 0

\* C6: a step of MindMapCache.status leaves the store as it is: the entry, its
\* hit_count and its expiry.
IsStatusStep(p) ==
    \/ pc[p] = "idle" /\ call'[p].op = "status"
    \/ pc[p] = "status_ttl" /\ pc'[p] # "status_ttl"

C6_StatusIsReadOnly == [][\A p \in Procs : IsStatusStep(p) => redis' = redis]_vars

C6_Witness ==
    \E p \in Procs :
        /\ Done(p, {"status"})
        /\ ret[p].status[1].is_cached
        /\ ret[p].status[1].hit_count = Some(1)
        /\ ret[p].status[1].ttl_seconds = Some(1)

\* C7: an entry written while the configured version was v is not seen by get
\* or status once the configured version is greater: what they find was
\* written under the configured version, and a paper never set under it is
\* reported absent.
C7_OldVersionIsAbsent ==
    \A p \in Procs :
        Done(p, {"get", "get_or_generate", "status"})
        => /\ obs[p].hit = "hit" => loc[p].entry[1].cache_version = version
           /\ obs[p].prevOp = "none" => obs[p].hit = "miss"

C7_Witness ==
    \E p \in Procs :
        /\ Done(p, {"get"}) /\ ret[p].kind = "absent"
        /\ version = 2
        /\ KeyOf(1, call[p].paper) \in DOMAIN redis
        /\ redis[KeyOf(1, call[p].paper)].exp > now

\* C8: right after set, whatever entry was there before, the entry holds the
\* mind map given, hit_count 0, the configured version, expires_at = cached_at
\* + TTL, and the store expires it a full TTL after the set.
C8_SetWritesFreshEntry ==
    \A k \in DOMAIN redis :
        hist[k].lastOp = "set"
        => /\ Some(EntryAt(k).mindmap) = hist[k].setMM
           /\ EntryAt(k).hit_count = 0
           /\ EntryAt(k).cache_version = k[2]
           /\ EntryAt(k).cached_at = hist[k].setAt
           /\ EntryAt(k).expires_at = EntryAt(k).cached_at + TtlTicks
           /\ redis[k].exp = hist[k].setAt + TtlTicks

C8_Witness ==
    \E p \in Procs :
        /\ Done(p, {"set"})
        /\ obs[p].over = Some(MaxHits)
        /\ hist[loc[p].key[1]].lastOp = "set"
        /\ loc[p].key[1] \in DOMAIN redis
        /\ now > 0

\* C9: invalidate never fails; after it the key is absent for get and status
\* until the next set; a second invalidate changes nothing.
C9_InvalidateDeletes ==
    /\ \A k \in AllKeys : hist[k].lastOp = "invalidate" => k \notin DOMAIN redis
    /\ \A p \in Procs :
        /\ (Done(p, {"get", "get_or_generate", "status"}) /\ obs[p].prevOp = "invalidate")
           => obs[p].hit = "miss"
        /\ Done(p, {"invalidate"})
           => /\ ret[p].kind = "ok"
              /\ obs[p].prevOp = "invalidate" => obs[p].writes = 0

C9_Witness ==
    \E p \in Procs :
        /\ Done(p, {"status"})
        /\ obs[p].prevOp = "invalidate"
        /\ ~ret[p].status[1].is_cached

\* C10: an invocation of get_or_generate that hits makes no generation call and
\* no cache.set; one that misses makes exactly one generation call and at most
\* one cache.set, made only after the generation succeeded.
C10_OneGenerationPerMiss ==
    \A p \in Procs :
        call[p].op = "get_or_generate"
        => /\ obs[p].gen <= 1 /\ obs[p].sets <= 1
           /\ obs[p].hit = "hit" => (obs[p].gen = 0 /\ obs[p].sets = 0)
           /\ obs[p].sets = 1 => (obs[p].gen = 1 /\ loc[p].mindmap # None)
           /\ pc[p] = "set_write" => (obs[p].gen = 1 /\ obs[p].sets = 0)
           /\ (pc[p] = "done" /\ obs[p].hit = "miss")
              => (obs[p].gen = 1 /\ (obs[p].sets = 1 <=> ret[p].kind = "mindmap"))
           /\ (pc[p] = "done" /\ obs[p].hit = "hit") => ret[p].kind = "mindmap"

C10_Witness ==
    \E p, q \in Procs :
        /\ p # q
        /\ Done(p, {"get_or_generate"}) /\ obs[p].hit = "miss" /\ obs[p].sets = 1
        /\ Done(q, {"get_or_generate"}) /\ obs[q].hit = "hit"

\* C11: two get_or_generate calls that overlap and both miss each make one
\* generation call, each returns its mind map unless its own generation
\* failed, and once both have returned theirs the cache holds the mind map of
\* the cache.set made last.
C11_ConcurrentMissesLastWriteWins ==
    \A p, q \in Procs :
        (/\ p # q
         /\ Done(p, {"get_or_generate"}) /\ obs[p].hit = "miss"
         /\ Done(q, {"get_or_generate"}) /\ obs[q].hit = "miss"
         /\ call[p].paper = call[q].paper)
        => /\ obs[p].gen = 1 /\ obs[q].gen = 1
           /\ ret[p].kind \in {"mindmap", "raise"}
           /\ ret[p].kind = "mindmap" <=> obs[p].sets = 1
           /\ (ret[p].kind = "mindmap" /\ ret[q].kind = "mindmap")
              => /\ loc[p].key[1] \in DOMAIN redis
                 /\ Some(EntryAt(loc[p].key[1]).mindmap) = hist[loc[p].key[1]].setMM
                 /\ hist[loc[p].key[1]].setMM \in {ret[p].mindmap, ret[q].mindmap}

C11_Witness ==
    \E p, q \in Procs :
        /\ p # q
        /\ Done(p, {"get_or_generate"}) /\ obs[p].hit = "miss" /\ obs[p].prevOp = "none"
        /\ Done(q, {"get_or_generate"}) /\ obs[q].hit = "miss" /\ obs[q].prevOp = "none"
        /\ ret[p].kind = "mindmap" /\ ret[q].kind = "mindmap"
        /\ ret[p].mindmap # ret[q].mindmap
        /\ EntryAt(loc[p].key[1]).mindmap = ret[q].mindmap[1]

Min(a, b) == IF a < b THEN a ELSE b
Regenerated == batch.pc = "done" /\ batch.regenerated
Succeeded == {i \in 1..Len(batch.tasks) : batch.tasks[i].ok}
IndexOf(arxiv_id) == CHOOSE i \in 1..Len(batch.candidates) : batch.candidates[i] = arxiv_id

\* C12: a regeneration returns the cards of the earliest successful candidates,
\* in candidate order, cut to the limit: as many as min(limit, successes), the
\* k-th card being that of the k-th successful candidate.
C12_FirstSuccessesInCandidateOrder ==
    Regenerated
    => /\ Len(batch.cards) = Min(batch.limit, Cardinality(Succeeded))
       /\ \A k \in 1..Len(batch.cards) :
            /\ batch.cards[k].arxiv_id \in Range(batch.candidates)
            /\ IndexOf(batch.cards[k].arxiv_id) \in Succeeded
            /\ Cardinality({j \in Succeeded : j < IndexOf(batch.cards[k].arxiv_id)}) = k - 1

C12_Witness ==
    /\ Regenerated
    /\ batch.limit = 2 /\ Len(batch.tasks) = 3
    /\ Succeeded = {2, 3}
    /\ Len(batch.cards) = 2

\* C13: a generation that fails never aborts the batch: no exception leaves
\* it, a task has a card exactly when its own generation succeeded, that card
\* is one its own paper and response give, and no card of a failed candidate
\* is returned.
C13_FailuresAreIsolated ==
    /\ batch.exc = ""
    /\ \A i \in 1..Len(batch.tasks) :
         batch.tasks[i].st = "done"
         => /\ batch.tasks[i].card # None <=> batch.tasks[i].ok
            /\ batch.tasks[i].ok
               => batch.tasks[i].card[1].arxiv_id = batch.candidates[i]
    /\ Regenerated
       => \A k \in 1..Len(batch.cards) :
            \E i \in Succeeded :
                Stamped(batch.tasks[i].card[1], batch.cards[k].generated_at,
                        batch.cards[k].expires_at) = batch.cards[k]

C13_Witness ==
    /\ Regenerated
    /\ Len(batch.tasks) = 3
    /\ Succeeded = {1, 3}
    /\ Len(batch.cards) = 2
    /\ batch.cards[2].arxiv_id = batch.candidates[3]

\* C14: at any moment the generation calls in flight are at most
\* rpm_budget // 2.
C14_InFlightWithinBudget == seen.inflight <= rpm \div 2

C14_Witness ==
    /\ batch.pc = "gather"
    /\ seen.inflight = rpm \div 2
    /\ \E i \in 1..Len(batch.tasks) : batch.tasks[i].st = "queued"

\* C15: with no candidate for the category, the regeneration returns an empty
\* list, makes no inference call and writes nothing to the table.
C15_NoCandidatesNoWork ==
    (batch.pc # "idle" /\ RecentPapers(batch.category) = <<>>)
    => /\ batch.pc = "done" /\ batch.regenerated /\ batch.exc = ""
       /\ batch.cards = <<>>
       /\ batch.tasks = <<>>
       /\ seen.calls = <<>>
       /\ seen.upserts = 0
       /\ table = seen.before

C15_Witness ==
    /\ Regenerated
    /\ batch.refresh
    /\ RecentPapers(batch.category) = <<>>
    /\ table # {}

\* C16: a regeneration makes exactly one generation call for each of the first
\* min(candidates, 2 x limit) candidates and none for the others, and returns
\* only once all of them have ended.
C16_AllTakenCalledOnce ==
    /\ \A i \in 1..Len(seen.calls) : seen.calls[i] <= 1
    /\ (Regenerated /\ batch.exc = "")
       => /\ \A i \in 1..Len(batch.candidates) :
                seen.calls[i] = IF i <= Min(Len(batch.candidates), 2 * batch.limit)
                                THEN 1 ELSE 0
          /\ Len(batch.tasks) = Min(Len(batch.candidates), 2 * batch.limit)
          /\ \A i \in 1..Len(batch.tasks) : batch.tasks[i].st = "done"
          /\ seen.inflight = 0

C16_Witness ==
    /\ Regenerated
    /\ batch.limit = 1
    /\ Len(batch.candidates) = 3
    /\ seen.calls = <<1, 1, 0>>
    /\ Succeeded = {1, 2}

\* C17: when a regeneration has returned, every candidate whose generation
\* succeeded, those past the limit included, has its card in the table,
\* written by the one upsert of the batch.
C17_AllSuccessesPersisted ==
    Regenerated
    => /\ seen.upserts <= 1
       /\ \A i \in Succeeded :
            \E r \in table :
                /\ r.category = batch.category
                /\ r.arxiv_id = batch.candidates[i]
                /\ r.headline = batch.tasks[i].card[1].headline
                /\ r.generated_at >= seen.at

\* C18: the table never holds two rows of one (category, arxiv_id), and the
\* row of a pair is the record last upserted for it.
C18_OneRowPerPair ==
    /\ \A r, s \in table : SamePair(r, s) => r = s
    /\ \A r \in table : persisted[<<r.category, r.arxiv_id>>] = Some(r)
    /\ \A pr \in Pairs : persisted[pr] # None => persisted[pr][1] \in table

C18_Witness ==
    /\ Regenerated
    /\ \E r \in table, old \in seen.before :
         /\ SamePair(r, old)
         /\ r.generated_at > old.generated_at
         /\ r.expires_at = r.generated_at + CardTtl

\* C19: get_fresh(category, limit) at time t returns at most limit rows of the
\* table, each of the category and expiring strictly after t, most recently
\* generated first, and leaves out no fresh row generated after a returned one.
C19_GetFreshNewestUnexpired ==
    seen.fresh # None
    => LET f == seen.fresh[1]
           fresh == {r \in seen.before : r.category = batch.category /\ r.expires_at > seen.at}
       IN  /\ Len(f) <= batch.limit
           /\ Range(f) \subseteq fresh
           /\ \A i, j \in 1..Len(f) : i < j => (f[i] # f[j] /\ f[i].generated_at >= f[j].generated_at)
           /\ \A o \in fresh \ Range(f) :
                /\ Len(f) = batch.limit
                /\ \A i \in 1..Len(f) : o.generated_at <= f[i].generated_at

C19_Witness ==
    /\ seen.fresh # None
    /\ Len(seen.fresh[1]) = 1
    /\ \E r \in seen.before : r.category = batch.category /\ r.expires_at = seen.at
    /\ \E r \in seen.before : r.category = batch.category /\ r.expires_at > seen.at
                              /\ r \notin Range(seen.fresh[1])

\* C20: without refresh and with at least limit fresh cards, get_cards returns
\* those limit cards and False, with no inference call and no write; with
\* refresh it does not read the fresh cards and returns True after a
\* regeneration.
C20_ServedFromStoreOrRegenerated ==
    /\ (batch.pc # "idle" /\ ~batch.refresh
        /\ Cardinality({r \in seen.before : r.category = batch.category
                                            /\ r.expires_at > seen.at}) >= batch.limit)
       => /\ batch.pc = "done" /\ ~batch.regenerated
          /\ Len(batch.cards) = batch.limit
          /\ batch.cards = [i \in 1..batch.limit |-> RecordToDict(seen.fresh[1][i])]
          /\ \A i \in 1..Len(seen.calls) : seen.calls[i] = 0
          /\ seen.upserts = 0 /\ table = seen.before
    /\ (batch.pc # "idle" /\ batch.refresh)
       => /\ seen.fresh = None
          /\ batch.pc = "done" => batch.regenerated

C20_Witness ==
    /\ batch.pc = "done" /\ ~batch.refresh /\ ~batch.regenerated
    /\ batch.limit = 2
    /\ Len(batch.cards) = 2
    /\ batch.cards[1].source_url = PdfUrl(batch.cards[1].arxiv_id)

\* C21: when every generation call of a regeneration failed, or there was no
\* candidate, get_cards returns the empty list and True, raises nothing and
\* leaves the table as it was, with no upsert.
C21_AllFailedReturnsEmpty ==
    (batch.pc = "done" /\ (batch.regenerated \/ batch.exc # "") /\ Succeeded = {})
    => /\ batch.regenerated /\ batch.exc = ""
       /\ batch.cards = <<>>
       /\ seen.upserts = 0
       /\ table = seen.before

C21_Witness ==
    /\ Regenerated
    /\ Len(batch.tasks) = 3
    /\ \A i \in 1..3 : seen.calls[i] = 1
    /\ Succeeded = {}
    /\ batch.cards = <<>>
    /\ table # {}

\* C22: a completion of no text is no success: every card get_cards returns
\* and every row of the table has a headline and an insight that are not empty.
C22_NoCardFromEmptyContent ==
    /\ \A k \in 1..Len(batch.cards) :
         batch.cards[k].headline # "" /\ batch.cards[k].insight # ""
    /\ \A r \in table : r.headline # "" /\ r.insight # ""

\* The parse has ended, and how: the object the parser worked on, and whether
\* every structured attempt on it failed, so that the plain-text fallback ran.
ParseEnded == out.stage \in {"returned", "raised"}
ObjectParsed == out.parsed # None /\ out.parsed[1].t = "obj" /\ DOMAIN out.parsed[1].o # {}
PlainTextFallbackRan ==
    /\ ParseEnded
    /\ out.diag # <<>>
    /\ out.diag[1].tag \in {"json_decode_error", "schema_validation_failed"}
    /\ ObjectParsed => Diag("fallback_validation_failed") \in Range(out.diag)

\* C23: when every structured attempt failed, the parser returns a degraded
\* result: the answer is the string answer of the parsed object if it has one,
\* else the raw text; confidence low, partial, not unanswerable, and at least
\* one diagnostic.
C23_DegradedWhenStructuredFails ==
    PlainTextFallbackRan
    => /\ out.stage = "returned"
       /\ out.result[1].answer =
            (IF ObjectParsed /\ HasKey(out.parsed[1], "answer") /\ IsJStr(out.parsed[1].o.answer)
             THEN out.parsed[1].o.answer.s ELSE resp.text)
       /\ out.result[1].metadata.confidence = "low"
       /\ out.result[1].metadata.is_partial
       /\ ~out.result[1].metadata.is_unanswerable
       /\ out.result[1].metadata.diagnostics # <<>>

\* C24: for an object with top-level fields outside the allow-list whose other
\* fields are valid, the parser returns the result of those other fields, with
\* a stripped_extra_fields diagnostic that names every field dropped.
C24_ExtraFieldsStrippedAndNamed ==
    (/\ ParseEnded
     /\ ObjectParsed
     /\ ExtraKeys(out.parsed[1]) # {}
     /\ RagValid(Sanitized(out.parsed[1])))
    => /\ out.stage = "returned"
       /\ out.result[1].answer = out.parsed[1].o.answer.s
       /\ DiagStripped(ExtraKeys(out.parsed[1])) \in Range(out.result[1].metadata.diagnostics)

\* C25: for a raw text that is empty or white space only, the parser gives a
\* failure, and no result, conformant or degraded.
C25_BlankTextIsAFailure ==
    (ParseEnded /\ resp.form = "text" /\ resp.text \in BlankTexts) => out.stage = "raised"

\* The mind maps that get_or_generate has returned and those the store holds.
MindMapsOut ==
    {ret[p].mindmap[1] : p \in {q \in Procs : call[q].op = "get_or_generate"
                                               /\ ret[q].kind = "mindmap"}}
    \cup {EntryAt(k).mindmap : k \in DOMAIN redis}

RECURSIVE NoIdRepeats(_, _)
NoIdRepeats(n, above) ==
    /\ n.id \notin above
    /\ \A i \in 1..Len(n.children) : NoIdRepeats(n.children[i], above \cup {n.id})

RECURSIVE RootCount(_)
RootCount(n) ==
    LET RECURSIVE Sum(_)
        Sum(i) == IF i = 0 THEN 0 ELSE RootCount(n.children[i]) + Sum(i - 1)
    IN  (IF n.node_type = "root" THEN 1 ELSE 0) + Sum(Len(n.children))

RECURSIVE KindsDeclared(_)
KindsDeclared(n) ==
    /\ n.node_type \in NodeTypes
    /\ n.importance \in Importances
    /\ \A i \in 1..Len(n.children) : KindsDeclared(n.children[i])

\* C26: no payload whose root node is of a kind other than root, and none in
\* which a node id comes again below itself, becomes a mind map that is
\* returned or cached.
C26_OddTreesRejected ==
    \A m \in MindMapsOut : m.root.node_type = "root" /\ NoIdRepeats(m.root, {})

\* C27: every mind map returned by get_or_generate or held by the store has
\* exactly one node of kind root, its tree root, and every node's kind and
\* importance are of the declared enumerations.
C27_TreeInvariant ==
    \A m \in MindMapsOut :
        /\ RootCount(m.root) = 1
        /\ m.root.node_type = "root"
        /\ KindsDeclared(m.root)

\* C28: the endpoint answers 404 for an unknown paper, else 422 for a paper
\* without chunks, else 502 when get_or_generate failed, else the mind map;
\* a 404 or 422 request makes no cache operation and no generation call.
C28_EndpointPrecedence ==
    \A p \in Procs :
        http[p].st = "sent"
        => /\ http[p].code =
                (IF ~call[p].known THEN 404
                 ELSE IF ~call[p].hasChunks THEN 422
                 ELSE IF ret[p].kind = "raise" THEN 502
                 ELSE 200)
           /\ http[p].code = 200 => ret[p].kind = "mindmap"
           /\ http[p].code \in {404, 422} => obs[p] = NoObs /\ loc[p] = NoLoc

\* C29: whatever get_or_generate raises out of the generation and validation
\* steps is a MindMapGenerationError.
C29_OnlyGenerationErrorEscapes ==
    \A p \in Procs :
        (call[p].op = "get_or_generate" /\ pc[p] = "done" /\ ret[p].kind = "raise")
        => /\ obs[p].gen = 1
           /\ ret[p].exc = "MindMapGenerationError"

\* C30: every failure of the remote call is raised as one of the three errors
\* of the taxonomy: a timeout as OllamaTimeoutError, any other connection
\* failure as OllamaConnectionError, anything else as OllamaException.
C30_FailuresClassified ==
    (reply # NoResult /\ remote.kind = "raise" /\ ~remote.stream)
    => /\ reply.kind = "raise"
       /\ reply.exc \in LlmErrors
       /\ reply.exc =
            (IF IsInstance(remote.cls, "APITimeoutError") THEN "OllamaTimeoutError"
             ELSE IF IsInstance(remote.cls, "APIConnectionError") THEN "OllamaConnectionError"
             ELSE "OllamaException")

\* C32: when gets of the same entry overlap in any way and nothing else
\* touches the key, the stored hit_count, once no get is in flight, is the
\* number of gets that completed: no increment is lost.
GetInFlight(k) == \E p \in Procs : pc[p] \in {"get_ttl", "get_write"} /\ loc[p].key = Some(k)

C32_NoIncrementLost ==
    \A k \in DOMAIN redis :
        ~GetInFlight(k) => EntryAt(k).hit_count = hist[k].gets

\* C35: once invalidate(key) has returned, the key stays out of the store
\* until the next set(key): no step other than a set brings it back, the
\* write-back of a get that read the entry before the invalidate included.
C35_InvalidatedStaysAbsent ==
    [][\A k \in AllKeys :
         (hist[k].lastOp = "invalidate" /\ hist'[k].lastOp # "set")
         => k \notin DOMAIN redis']_vars

\* C36: a get changes only hit_count: the entry in the store carries the mind
\* map, the version, cached_at and expires_at of the last set and expires a
\* full TTL after it, and a get that began after that set returns its mind
\* map, even when a get that read the entry before the set was in flight
\* during it.
C36_GetKeepsTheArtifact ==
    /\ \A k \in DOMAIN redis :
         hist[k].lastOp \in {"set", "get"}
         => /\ Some(EntryAt(k).mindmap) = hist[k].setMM
            /\ EntryAt(k).cache_version = k[2]
            /\ EntryAt(k).cached_at = hist[k].setAt
            /\ EntryAt(k).expires_at = hist[k].setAt + TtlTicks
            /\ redis[k].exp = hist[k].setAt + TtlTicks
    /\ \A p \in Procs :
         (Done(p, {"get", "get_or_generate"}) /\ obs[p].hit = "hit"
          /\ obs[p].prevOp \in {"set", "get"})
         => ret[p].mindmap = obs[p].h[1].setMM

\* C38: a get_or_generate that missed returns the mind map it wrote to the
\* cache, with the caller's title; a get_or_generate that directly follows
\* the write, before the TTL has elapsed, is a hit, returns a mind map equal
\* to it in every field and leaves hit_count = 1.
C38_MissReturnsWhatItCached ==
    \A p \in Procs :
        Done(p, {"get_or_generate"})
        => LET key == loc[p].key[1] IN
           /\ obs[p].sets = 1
              => /\ ret[p].kind = "mindmap"
                 /\ ret[p].mindmap[1].paper_title = TitleOf(call[p].paper)
                 /\ key \in DOMAIN redis
                    => /\ EntryAt(key).mindmap = ret[p].mindmap[1]
                       /\ hist[key].setMM = ret[p].mindmap
                       /\ EntryAt(key).hit_count = 0
           /\ obs[p].fresh
              => /\ obs[p].hit = "hit"
                 /\ obs[p].gen = 0
                 /\ ret[p].kind = "mindmap"
                 /\ ret[p].mindmap = obs[p].h[1].setMM
                 /\ ret[p].mindmap[1].paper_title = TitleOf(call[p].paper)
                 /\ key \in DOMAIN redis
                    => /\ EntryAt(key).mindmap = ret[p].mindmap[1]
                       /\ EntryAt(key).hit_count = 1

C38_Witness ==
    \E p \in Procs :
        /\ Done(p, {"get_or_generate"}) /\ obs[p].fresh /\ obs[p].hit = "hit"
        /\ ret[p].mindmap[1].root = RootA
        /\ ret[p].mindmap[1].sections_covered = <<"Introduction">>
        /\ ret[p].mindmap[1].paper_title = TitleOf(call[p].paper)
        /\ loc[p].key[1] \in DOMAIN redis
        /\ EntryAt(loc[p].key[1]).hit_count = 1

\* C34: a get_cards without refresh that follows a call which regenerated the
\* same category with the same limit, before the TTL has elapsed since that
\* regeneration, is served from the store: it ends at once with
\* regenerated = false and makes no inference call, whatever number of cards
\* the regeneration produced.
C34_ServedFromStoreAfterRegeneration ==
    (/\ batch.pc # "idle"
     /\ ~batch.refresh
     /\ lastRegen # None
     /\ lastRegen[1].category = batch.category
     /\ lastRegen[1].limit = batch.limit
     /\ seen.at < lastRegen[1].at + CardTtl)
    => /\ batch.pc = "done"
       /\ ~batch.regenerated
       /\ \A i \in 1..Len(seen.calls) : seen.calls[i] = 0

\* C37: delete_expired(limit) returns the number of rows it removed; the rows
\* removed had expires_at strictly before now and are at most limit; no row
\* that get_fresh would return at that instant is removed; a row whose
\* expires_at is exactly now is neither returned by get_fresh nor removed.
C37_DeleteExpiredRemovesOnlyExpired ==
    sweep.st = "done"
    => LET removed == sweep.before \ table IN
       /\ sweep.exc = ""
       /\ sweep.deleted = Some(Cardinality(removed))
       /\ table \subseteq sweep.before
       /\ removed \subseteq ExpiredRows(sweep.before, now)
       /\ Cardinality(removed) <= sweep.limit
       /\ \A c \in Categories : FreshRows(sweep.before, c, now) \subseteq table
       /\ \A r \in sweep.before :
            r.expires_at = now
            => r \in table /\ r \notin FreshRows(sweep.before, r.category, now)

\* C33: a batch refresh terminates.  For every rpm_budget from 1 up, every
\* limit and every candidate list, given that each inference call ends, every
\* task created is admitted by the semaphore and ends, and _regenerate
\* returns.
C33_BatchTerminates ==
    (batch.pc = "gather")
    ~> (batch.pc = "done" /\ \A i \in 1..Len(batch.tasks) : batch.tasks[i].st = "done")

\* C39: the gateway makes no retry: a call of generate that has ended,
\* whether it returned or raised, has sent exactly one request to the
\* endpoint.
C39_OneRemoteCallPerGenerate ==
    reply # NoResult => requests = 1

\* C40: the stages run in order and the parser adds diagnostics exactly when it
\* repaired: a response that is a conformant object at the first stage is
\* returned by that stage, its diagnostics those the response carried and no
\* more; every result of a later stage, stripped or degraded, carries at least
\* one diagnostic added by the parser.
ParserTags ==
    {"json_decode_error", "schema_validation_failed", "fallback_json_decode_error",
     "stripped_extra_fields", "fallback_validation_failed",
     "Used plain-text fallback because schema validation failed"}
ConformantAtFirst == resp.form = "json" /\ resp.val.t = "obj" /\ RagValid(resp.val)
AddedByParser(rag) ==
    {i \in 1..Len(rag.metadata.diagnostics) : rag.metadata.diagnostics[i].tag \in ParserTags}

C40_DiagnosticsExactlyOnRepair ==
    /\ (ConformantAtFirst /\ out.stage # "start")
       => /\ out.stage = "returned"
          /\ out.diag = <<>>
          /\ out.result[1] = RagOf(resp.val)
          /\ AddedByParser(out.result[1]) = {}
    /\ (out.stage = "returned" /\ ~ConformantAtFirst)
       => /\ out.diag # <<>>
          /\ AddedByParser(out.result[1]) # {}
          /\ \A i \in 1..Len(out.diag) :
               \E j \in AddedByParser(out.result[1]) :
                   out.result[1].metadata.diagnostics[j] = out.diag[i]
    /\ out.stage = "fallback" => (~ConformantAtFirst /\ out.diag # <<>>)

C40_Witness ==
    /\ out.stage = "returned"
    /\ ~ConformantAtFirst
    /\ Len(out.result[1].metadata.diagnostics) = 3
    /\ out.result[1].metadata.diagnostics[1].tag = "a note by the model"
    /\ out.result[1].metadata.diagnostics[2].tag = "schema_validation_failed"
    /\ out.result[1].metadata.diagnostics[3].tag = "stripped_extra_fields"


\* ---------------------------------------------------------------- C31
\* What the passages hold of one section, read off the passages themselves.
CharsOfSection(label) ==
    {c \in [p : 1..Len(prompt.passages), i : 1..MaxPassageLen] :
        /\ prompt.passages[c.p].section = label
        /\ c.i <= prompt.passages[c.p].len}
Precedes(c, d) == c.p < d.p \/ (c.p = d.p /\ c.i < d.i)
InOriginalOrder(body) ==
    \A a, b \in 1..Len(body) : a < b => Precedes(body[a], body[b])
WholeSection(blk) ==
    /\ {blk.body[n] : n \in 1..Len(blk.body)} = CharsOfSection(blk.section)
    /\ Len(blk.body) = Cardinality(CharsOfSection(blk.section))
RECURSIVE TextLength(_)
TextLength(blocks) ==
    IF blocks = <<>> THEN 0 ELSE Len(Head(blocks).body) + TextLength(Tail(blocks))
\* The sections of the passages that are not denylisted: a label comes before
\* another when its first passage does.
KeptLabels ==
    {prompt.passages[k].section : k \in 1..Len(prompt.passages)} \ Denylist
FirstPassage(label) ==
    CHOOSE k \in 1..Len(prompt.passages) :
        /\ prompt.passages[k].section = label
        /\ \A q \in 1..k - 1 : prompt.passages[q].section # label
CombinedLength ==
    Cardinality(UNION {CharsOfSection(l) : l \in KeptLabels})

\* C31: the text built from the passages holds no denylisted section and
\* stays within the budget; it is made of sections in the order they first
\* appear, none left out before one that is taken, each one whole and in
\* passage order except that the only one may be cut, and then that section
\* alone exceeds the full budget; and it ends at the last section boundary
\* that fits: the first section left out would not have fitted whole.
C31_TruncatedAtSectionBoundary ==
    prompt.st = "built" =>
        LET text == prompt.text
            taken == {text[n].section : n \in 1..Len(text)}
        IN  /\ taken \cap Denylist = {}
            /\ taken \subseteq KeptLabels
            /\ TextLength(text) <= prompt.budget
            /\ \A n \in 1..Len(text) :
                 /\ InOriginalOrder(text[n].body)
                 /\ {text[n].body[c] : c \in 1..Len(text[n].body)}
                        \subseteq CharsOfSection(text[n].section)
                 /\ \A m \in 1..Len(text) :
                      n < m => FirstPassage(text[n].section) < FirstPassage(text[m].section)
                 /\ \A l \in KeptLabels :
                      FirstPassage(l) < FirstPassage(text[n].section) => l \in taken
                 /\ \/ WholeSection(text[n])
                    \/ /\ n = Len(text)
                       /\ Cardinality(CharsOfSection(text[n].section)) > prompt.budget
                       /\ text[n].body # <<>>
                       /\ TextLength(text) = prompt.budget
                       /\ \A c \in CharsOfSection(text[n].section) :
                            \A d \in 1..Len(text[n].body) :
                               Precedes(c, text[n].body[d])
                                  => \E e \in 1..d - 1 : text[n].body[e] = c
            /\ \A l \in KeptLabels \ taken :
                 (\A k \in KeptLabels \ taken : FirstPassage(l) <= FirstPassage(k))
                    => TextLength(text) + Cardinality(CharsOfSection(l)) > prompt.budget
\* The passages exceed the budget, a denylisted one is among them, and the
\* text ends at a section boundary with room left that the next section
\* would have overrun.
C31_Witness ==
    /\ prompt.st = "built"
    /\ CombinedLength > prompt.budget
    /\ \E k \in 1..Len(prompt.passages) : prompt.passages[k].section \in Denylist
    /\ prompt.text # <<>>
    /\ \A n \in 1..Len(prompt.text) : WholeSection(prompt.text[n])
    /\ TextLength(prompt.text) < prompt.budget
    /\ KeptLabels \ {prompt.text[n].section : n \in 1..Len(prompt.text)} # {}

====
